---- MODULE Spec2Model ----
(***************************************************************************)
(* Model of the win_event_engine pipeline: the engine supervisor          *)
(* (initialize / reload / get_status), the event bus, the dispatch task,  *)
(* and the lifecycle of the source plugins (start / stop / OS thread /    *)
(* forwarding task).                                                       *)
(***************************************************************************)
EXTENDS Integers, Sequences, FiniteSets, TLC

\* ------------------------------------------------------------------ bounds
MaxRules == 2        \* rules per configuration
MaxSources == 2      \* sources per configuration
MaxEvents == 2       \* events emitted in one run
MaxReloads == 1      \* calls of Engine::reload in one run
BufferSize == 1      \* engine.event_buffer_size of the configurations

None == "None"
NoBus == 0            \* Engine.event_sender = NoBus
NoEvent == [id |-> 0, kind |-> None, epoch |-> 0]

\* --------------------------------------------------------- configuration
EventKinds == {"FileCreated", "WindowCreated"}

\* TriggerConfig: file_created with an optional filename glob ("[" is a glob
\* that glob::Pattern::new rejects) and window_created.
TriggerConfigs ==
    { [type |-> "file_created", pattern |-> None],
      [type |-> "file_created", pattern |-> "["],
      [type |-> "window_created", pattern |-> None] }

\* ActionConfig: log returns at once; execute spawns a child process and waits
\* for it (ExecuteAction::execute, wait_with_output).
ActionConfigs == {"log", "execute"}

RuleNames == {"", "r"}
SourceNames == {"a", "b"}

RuleConfig == [name : RuleNames, enabled : BOOLEAN, trigger : TriggerConfigs,
               action : ActionConfigs]
SourceConfig == [name : SourceNames, enabled : BOOLEAN]

SeqsUpTo(S, n) == UNION { [1..k -> S] : k \in 0..n }

Config == [sources : SeqsUpTo(SourceConfig, MaxSources),
           rules : SeqsUpTo(RuleConfig, MaxRules)]

\* Config::validate: every rule has a name, source names are unique.
validate(c) ==
    IF \E i \in 1..Len(c.rules) : c.rules[i].name = ""
    THEN "Err"
    ELSE IF \E i \in 1..Len(c.sources) : \E j \in 1..Len(c.sources) :
               i < j /\ c.sources[i].name = c.sources[j].name
         THEN "Err"
         ELSE "Ok"

\* create_demo_config of main.rs: one enabled file watcher, one enabled
\* file_created rule.
create_demo_config ==
    [sources |-> << [name |-> "a", enabled |-> TRUE] >>,
     rules |-> << [name |-> "r", enabled |-> TRUE,
                   trigger |-> [type |-> "file_created", pattern |-> None],
                   action |-> "log"] >>]

FileRule(n, e, pat, act) ==
    [name |-> n, enabled |-> e,
     trigger |-> [type |-> "file_created", pattern |-> pat], action |-> act]

WindowRule(n, e, act) ==
    [name |-> n, enabled |-> e,
     trigger |-> [type |-> "window_created", pattern |-> None], action |-> act]

\* Rules of the configurations the dispatch specification starts from: an
\* enabled and a disabled file rule, a window rule, a rule whose glob cannot
\* be compiled, a rule with an execute action.
DispatchRules ==
    { FileRule("r", TRUE, None, "log"), FileRule("r", FALSE, None, "log"),
      WindowRule("r", TRUE, "log"), FileRule("r", TRUE, "[", "log"),
      FileRule("r", TRUE, None, "execute") }

\* Configurations the dispatch specification starts from: validated
\* configurations that keep the demo source and have at most one rule with
\* an execute action.
InitConfigs ==
    { c \in [sources : {create_demo_config.sources},
             rules : SeqsUpTo(DispatchRules, MaxRules)] :
          /\ validate(c) = "Ok"
          /\ Cardinality({i \in 1..Len(c.rules) :
                             c.rules[i].action = "execute"}) <= 1 }

\* Configurations handed to reload in the dispatch specification: the demo
\* configuration, one with a second rule, one with no rule, one that fails
\* validation.
ReloadConfigs ==
    { create_demo_config,
      [create_demo_config EXCEPT !.rules =
          << [name |-> "r", enabled |-> TRUE,
              trigger |-> [type |-> "window_created", pattern |-> None],
              action |-> "log"],
             [name |-> "r", enabled |-> TRUE,
              trigger |-> [type |-> "file_created", pattern |-> None],
              action |-> "log"] >>],
      [create_demo_config EXCEPT !.rules = << >>],
      [create_demo_config EXCEPT !.rules =
          << [name |-> "", enabled |-> TRUE,
              trigger |-> [type |-> "file_created", pattern |-> None],
              action |-> "log"] >>] }

\* Rules of the configurations handed to reload in the supervisor
\* specification: enabled, disabled, not buildable, unnamed.
CtlRules ==
    { FileRule("r", TRUE, None, "log"), FileRule("r", FALSE, None, "log"),
      FileRule("r", TRUE, "[", "log"), FileRule("", TRUE, None, "log") }

\* Source lists of those configurations, up to the order of the sources:
\* first by name, enabled before disabled.
SourceRank(sc) ==
    (IF sc.name = "a" THEN 0 ELSE 2) + (IF sc.enabled THEN 0 ELSE 1)

CtlSources ==
    { ss \in SeqsUpTo(SourceConfig, MaxSources) :
          \A i \in 1..(Len(ss) - 1) : SourceRank(ss[i]) <= SourceRank(ss[i + 1]) }

CtlConfigs == [sources : CtlSources, rules : SeqsUpTo(CtlRules, MaxRules)]

\* ----------------------------------------------------------------- state
VARIABLES
    config,            \* Engine.config
    plugins,           \* Engine.plugins: names of the started plugins
    rules,             \* Engine.rules: the active rule list
    action_executor,   \* Engine.action_executor: i |-> action under rule_<i>_action
    event_sender,      \* Engine.event_sender: NoBus or the bus it sends to
    buses,             \* the mpsc channels created by create_event_bus
    tasks,             \* the spawned dispatch tasks
    epoch,             \* number of configurations installed so far
    nextId,            \* identity of the next Event (Uuid::new_v4)
    sent,              \* ids of the events whose try_send succeeded
    dropped,           \* number of events whose try_send failed on a full bus
    events_dropped_total,  \* the metrics counter of that name
    deqLog,            \* dequeues in order: [ev, task]
    execLog,           \* ActionExecutor::execute calls in order
    reloads,           \* number of reload calls so far
    last_reload,       \* outcome of the latest reload call
    last_init          \* latest initialize / reload: its result and the
                       \* sources whose start returned an error

engineVars == << config, plugins, rules, action_executor, event_sender, buses,
                 tasks, epoch, nextId, sent, dropped, events_dropped_total,
                 deqLog, execLog, reloads, last_reload, last_init >>

\* One source plugin, its dedicated OS thread and its forwarding task.
VARIABLES
    ptype,             \* which plugin: "file", "window", "process", "registry"
    p_empty,           \* the file watcher has no path / the registry monitor no key
    is_running,        \* the plugin's is_running flag
    p_handle,          \* watcher / hook_thread / etw_thread: 0 (None) or its generation
    p_sender,          \* self.event_sender: 0 (None) or its generation
    th,                \* state of the OS thread of each generation
    fw,                \* state of the forwarding task of each generation
    chan,              \* events queued on the bridge channel of each generation
    main_pc,           \* where the caller of start / stop is
    gen,               \* generations created so far (threads spawned by start)
    os_events,         \* OS notifications delivered so far
    p_calls,           \* start / stop calls returned so far
    p_ret,             \* the call that returned last
    expect_running,    \* a start has succeeded and no stop was called since
    p_emits            \* emitter.try_send calls: generation and is_running then

pluginVars == << ptype, p_empty, is_running, p_handle, p_sender, th, fw, chan,
                 main_pc, gen, os_events, p_calls, p_ret, expect_running,
                 p_emits >>

\* One call of a library function: the function, its arguments, its result.
VARIABLES fcall

libVars == << fcall >>

\* The metrics collector, the threads calling it and its cleanup task.
VARIABLES
    counters,          \* self.counters: key -> the AtomicU64, if present
    counter_samples,   \* self.counter_samples: key -> timestamped samples
    gauges,            \* self.gauges: key -> the value, if present
    gauge_samples,     \* self.gauge_samples
    histograms,        \* self.histograms: key -> timestamped samples
    m_pc,              \* each thread's position in increment_counter
    now,               \* Utc::now(), seconds since the collector was built
    cleanup,           \* the cleanup task: spawned or not, and the maps it holds
    m_calls,           \* collector calls begun so far
    seen,              \* what get_counter returned last for each key
    added,             \* sum of the values of the completed increments per key
    evicted            \* samples the cleanup task removed, and when

metricsVars == << counters, counter_samples, gauges, gauge_samples, histograms,
                  m_pc, now, cleanup, m_calls, seen, added, evicted >>

\* The window observer: the hook callback's channel and the forwarding task.
VARIABLES
    title_filter,      \* the compiled title regex, if configured
    process_filter,    \* the compiled process-name regex, if configured
    os_windows,        \* the windows that exist in the OS
    event_receiver,    \* the mpsc channel from the hook thread to the task
    previous_hwnd,     \* the single slot holding the last focused window
    emitted,           \* the events handed to emitter.try_send, in order
    w_events,          \* OS notifications delivered so far
    last_focus         \* the last Focused notification the task handled

windowVars == << title_filter, process_filter, os_windows, event_receiver,
                 previous_hwnd, emitted, w_events, last_focus >>

\* The metrics broadcast channel and one WebSocket client of the server.
VARIABLES
    tx_tail,           \* update_tx: number of updates broadcast so far
    rx_next,           \* updates: position of the next update the client reads
    ws_pc,             \* handle_socket: where the client's handler stands
    frames,            \* the frames sent to the client, in order
    subscribed_at,     \* updates broadcast before the client subscribed
    lost,              \* updates the receiver skipped, and tx_tail then
    ticks              \* periodic snapshots sent so far

wsVars == << tx_tail, rx_next, ws_pc, frames, subscribed_at, lost, ticks >>

\* Engine::shutdown as main calls it after its loop.
VARIABLES
    shutdown           \* whether shutdown has returned, and the lengths of
                       \* deqLog and execLog at that moment

shutdownVars == << shutdown >>

\* Config hot reload: Engine::watch_config and the reload branch of main.
VARIABLES
    cfg_file,          \* version of the configuration on disk
    cfg_loaded,        \* version the engine last loaded
    shutdown_flag,     \* Engine::shutdown_flag, shared with the watcher tasks
    watchers,          \* the watcher tasks spawned so far, oldest first
    reload_signals,    \* signals waiting in the channel main receives from
    main_loop,         \* "select" or "reloading"
    since_signal,      \* ticks since the last signal, capped
    last_signal,       \* the last signal: sender, notification, gap before it
    fs_count           \* number of file system notifications so far

watchVars == << cfg_file, cfg_loaded, shutdown_flag, watchers, reload_signals,
                main_loop, since_signal, last_signal, fs_count >>

vars == << engineVars, pluginVars, libVars, metricsVars, windowVars, wsVars, shutdownVars, watchVars >>

\* ------------------------------------------------------------ rule model
GlobValid(p) == p # "["

\* Engine::create_rule: the matcher of the trigger, or an error for a bad glob.
\* cfg_index and epoch record where the rule came from.
create_rule(rc, j, ep) ==
    IF rc.trigger.type = "file_created" /\ rc.trigger.pattern # None
       /\ ~GlobValid(rc.trigger.pattern)
    THEN [ok |-> FALSE]
    ELSE [ok |-> TRUE,
          rule |-> [name |-> rc.name, enabled |-> rc.enabled,
                    matcher |-> rc.trigger, cfg_index |-> j - 1, epoch |-> ep]]

IndexSeq(n) == [j \in 1..n |-> j]

\* Variant of initialize_rules that also pushes the disabled rules.
initialize_rules_all(rules0, c, ep) ==
    LET kept == SelectSeq(IndexSeq(Len(c.rules)),
                   LAMBDA j : create_rule(c.rules[j], j, ep).ok)
    IN rules0 \o [k \in 1..Len(kept) |->
                     create_rule(c.rules[kept[k]], kept[k], ep).rule]

\* Engine::initialize_rules: push the enabled rules that could be built.
initialize_rules(rules0, c, ep) ==
    LET kept == SelectSeq(IndexSeq(Len(c.rules)),
                   LAMBDA j : c.rules[j].enabled
                              /\ create_rule(c.rules[j], j, ep).ok)
    IN rules0 \o [k \in 1..Len(kept) |->
                     create_rule(c.rules[kept[k]], kept[k], ep).rule]

\* Engine::initialize_actions: register rule_<idx>_action for every rule of
\* the configuration, idx its ordinal in config.rules.  An action is
\* identified by the configuration and the rule it was configured for.
initialize_actions(exec, c, ep) ==
    [i \in (DOMAIN exec) \cup (0..(Len(c.rules) - 1)) |->
        IF i \in 0..(Len(c.rules) - 1)
        THEN [epoch |-> ep, cfg_index |-> i, kind |-> c.rules[i + 1].action]
        ELSE exec[i]]

\* Variant of initialize_plugins that gives up at the first source whose
\* start returns an error.
initialize_plugins_abort(plugins0, c, started) ==
    LET kept == SelectSeq(IndexSeq(Len(c.sources)),
                   LAMBDA j : /\ c.sources[j].enabled
                              /\ \A i \in 1..j : c.sources[i].enabled => i \in started)
    IN plugins0 \o [k \in 1..Len(kept) |-> c.sources[kept[k]].name]

\* Engine::initialize_plugins: the enabled sources whose start succeeded
\* (started is the set of source ordinals whose start returns Ok); a source
\* whose start returns an error is logged and skipped.
initialize_plugins(plugins0, c, started) ==
    LET kept == SelectSeq(IndexSeq(Len(c.sources)),
                   LAMBDA j : c.sources[j].enabled /\ j \in started)
    IN plugins0 \o [k \in 1..Len(kept) |-> c.sources[kept[k]].name]

EnabledSources(c) == { j \in 1..Len(c.sources) : c.sources[j].enabled }

\* matches_event_kind / FilePatternMatcher::matches for the modelled triggers.
matcher_matches(m, kind) ==
    IF m.type = "file_created" THEN kind = "FileCreated"
    ELSE kind = "WindowCreated"

\* Variant of Rule::matches that ignores the matcher.
Rule_matches_enabled_only(rule, event) == rule.enabled

\* Rule::matches
Rule_matches(rule, event) ==
    IF ~rule.enabled THEN FALSE ELSE matcher_matches(rule.matcher, event.kind)

\* ActionExecutor::execute
execute(exec, name) ==
    IF name \in DOMAIN exec
    THEN [ok |-> TRUE, action |-> exec[name]]
    ELSE [ok |-> FALSE, error |-> "Configuration"]

\* Engine::get_status
get_status == [active_plugins |-> Len(plugins), active_rules |-> Len(rules)]

\* ------------------------------------------------------------ event bus
create_event_bus(hasSender) == [queue |-> << >>, senders |-> hasSender]

\* mpsc::Sender::try_send: Full when the channel holds `cap` messages.
try_send(bus, ev, cap) ==
    IF Len(bus.queue) < cap
    THEN [ok |-> TRUE, bus |-> [bus EXCEPT !.queue = Append(@, ev)]]
    ELSE [ok |-> FALSE, bus |-> bus]

\* mpsc::Receiver::recv on a non-empty channel: the oldest message leaves it.
recv(bus) == [event |-> Head(bus.queue), bus |-> [bus EXCEPT !.queue = Tail(@)]]

\* record_event_dropped of the metrics crate.
record_event_dropped(counter) == counter + 1

\* A dispatch task: the snapshot it captured (rules, actions, of which epoch),
\* the receiver it owns and its position in the loop.
NewTask(rs, exec, b, ep) ==
    [rules |-> rs, actions |-> exec, bus |-> b, epoch |-> ep, pc |-> "recv",
     idx |-> 0, event |-> NoEvent]

\* A terminated task owns nothing any more.
StoppedTask(b, ep) ==
    [rules |-> << >>, actions |-> << >>, bus |-> b, epoch |-> ep,
     pc |-> "stopped", idx |-> 0, event |-> NoEvent]

\* --------------------------------------------------------------- actions
MaxStarts == 2       \* generations: starts that spawn a thread or a watcher
MaxCalls == 4        \* start / stop calls in one run
MaxOsEvents == 2     \* OS notifications delivered to the plugin

Gens == 1..MaxStarts

\* No library call has been made.
LibNew == fcall = [fn |-> None]

\* --------------------------------------------------------- window observer

\* WindowEventPlugin::new: no filter, an empty previous-window slot; no
\* notification has been delivered.
WindowNew ==
    /\ title_filter = << >>
    /\ process_filter = << >>
    /\ os_windows = {}
    /\ event_receiver = << >>
    /\ previous_hwnd = << >>
    /\ emitted = << >>
    /\ w_events = 0
    /\ last_focus = [hwnd |-> 0, prev |-> << >>, out |-> << >>]

\* ------------------------------------------------------- Config hot reload

\* Time advances in ticks of 250 ms, the watcher's polling timeout.
PollTicks == 1

\* debounce_duration, 500 ms, in ticks.
DebounceTicks == 2

MaxFsEvents == 2

\* notify::Event values the watcher can be handed: a kind and the extensions
\* of the paths it names.
FsEvents ==
    { [kind |-> "Modify", paths |-> {"toml"}],
      [kind |-> "Create", paths |-> {"toml", "txt"}],
      [kind |-> "Modify", paths |-> {"txt"}],
      [kind |-> "Remove", paths |-> {"toml"}],
      [kind |-> "Create", paths |-> {}] }

\* The task watch_config spawns: last_reload = Instant::now(), held as the
\* ticks elapsed since, and an empty notify channel.
new_watcher ==
    [pc |-> "top", remaining |-> 0, last_reload |-> 0, notify_rx |-> << >>]

\* main after its first watch_config: one watcher, nothing signalled.
WatchNew ==
    /\ cfg_file = 0
    /\ cfg_loaded = 0
    /\ shutdown_flag = FALSE
    /\ watchers = << new_watcher >>
    /\ reload_signals = 0
    /\ main_loop = "select"
    /\ since_signal = DebounceTicks
    /\ last_signal = << >>
    /\ fs_count = 0

\* Engine::shutdown has not been called.
ShutdownNew == shutdown = [done |-> FALSE, dispatched |-> 0, executed |-> 0]

\* ------------------------------------------------------ WebSocket server

\* MetricsCollector::with_retention creates the broadcast channel; no client
\* has connected.
WsNew ==
    /\ tx_tail = 0
    /\ rx_next = 0
    /\ ws_pc = "none"
    /\ frames = << >>
    /\ subscribed_at = 0
    /\ lost = {}
    /\ ticks = 0

\* ------------------------------------------------------- metrics collector

MaxThreads == 2      \* threads calling the collector concurrently
MaxMetricCalls == 3  \* collector calls in one behaviour

DEFAULT_RETENTION_SECONDS == 3600
ERROR_RETENTION_SECONDS == 86400

Threads == 1..MaxThreads

\* Counter keys (one regular, one error-flagged), the gauge and the
\* histogram, as MetricsCollector::with_retention registers them.
CounterKeys == {"events_total", "events_dropped_total"}
GaugeKeys == {"engine_uptime_seconds"}
HistogramKeys == {"events_processing_duration_seconds"}
is_error_metric(key) == key \in {"events_dropped_total", "plugins_errors_total"}

\* An absent map entry, and a present one holding v.
Absent == [present |-> FALSE, v |-> 0]
Present(v) == [present |-> TRUE, v |-> v]

NoSamples(keys) == [k \in keys |-> << >>]

\* MetricsCollector::with_retention: empty maps, no cleanup task.
MetricsNew ==
    /\ counters = [k \in CounterKeys |-> Absent]
    /\ counter_samples = NoSamples(CounterKeys)
    /\ gauges = [k \in GaugeKeys |-> Absent]
    /\ gauge_samples = NoSamples(GaugeKeys)
    /\ histograms = NoSamples(HistogramKeys)
    /\ m_pc = [t \in Threads |-> [pc |-> "idle", key |-> None, value |-> 0]]
    /\ now = 0
    /\ cleanup = [started |-> FALSE, counters |-> NoSamples(CounterKeys),
                  gauges |-> NoSamples(GaugeKeys),
                  histograms |-> NoSamples(HistogramKeys)]
    /\ m_calls = 0
    /\ seen = [k \in CounterKeys |-> 0]
    /\ added = [k \in CounterKeys |-> 0]
    /\ evicted = {}

\* The plugin as its constructor leaves it.
PluginNew(t, e) ==
    /\ ptype = t
    /\ p_empty = e
    /\ is_running = FALSE
    /\ p_handle = 0
    /\ p_sender = 0
    /\ th = [g \in Gens |-> "none"]
    /\ fw = [g \in Gens |-> "none"]
    /\ chan = [g \in Gens |-> 0]
    /\ main_pc = "idle"
    /\ gen = 0
    /\ os_events = 0
    /\ p_calls = 0
    /\ p_ret = [op |-> None, res |-> None, thread |-> None]
    /\ expect_running = FALSE
    /\ p_emits = << >>

EngineNew(c) ==
    /\ config = c
    /\ plugins = << >>
    /\ rules = << >>
    /\ action_executor = << >>
    /\ event_sender = NoBus
    /\ buses = << >>
    /\ tasks = << >>
    /\ epoch = 0
    /\ nextId = 1
    /\ sent = {}
    /\ dropped = 0
    /\ events_dropped_total = 0
    /\ deqLog = << >>
    /\ execLog = << >>
    /\ reloads = 0
    /\ last_reload = [ok |-> FALSE, started |-> 0]
    /\ last_init = [op |-> None, res |-> None, failed |-> {}]

\* main.rs validates the configuration before it constructs the engine.
Init ==
    /\ \E c \in InitConfigs : EngineNew(c)
    /\ PluginNew("file", FALSE)
    /\ LibNew
    /\ MetricsNew
    /\ WindowNew
    /\ WsNew
    /\ ShutdownNew
    /\ WatchNew

CtlInit ==
    /\ EngineNew(create_demo_config)
    /\ PluginNew("file", FALSE)
    /\ LibNew
    /\ MetricsNew
    /\ WindowNew
    /\ WsNew
    /\ ShutdownNew
    /\ WatchNew

\* Engine::initialize
Initialize ==
    /\ event_sender = NoBus
    /\ UNCHANGED << pluginVars, libVars, metricsVars, windowVars, wsVars, shutdownVars, watchVars >>
    /\ \E started \in SUBSET EnabledSources(config) :
          /\ plugins' = initialize_plugins(plugins, config, started)
          /\ last_init' = [op |-> "initialize", res |-> "Ok",
                           failed |-> EnabledSources(config) \ started]
    /\ buses' = Append(buses, create_event_bus(TRUE))
    /\ event_sender' = Len(buses) + 1
    /\ rules' = initialize_rules(rules, config, epoch + 1)
    /\ action_executor' = initialize_actions(action_executor, config, epoch + 1)
    /\ tasks' = Append(tasks, NewTask(rules', action_executor', Len(buses) + 1,
                                    epoch + 1))
    /\ epoch' = epoch + 1
    /\ UNCHANGED << config, nextId, sent, dropped, events_dropped_total, deqLog,
                    execLog, reloads, last_reload >>

\* Variant of reload that stops the plugins and clears the rules before it
\* validates the configuration.
Reload_validates_late(c) ==
    /\ event_sender # NoBus
    /\ reloads < MaxReloads
    /\ UNCHANGED << pluginVars, libVars, metricsVars, windowVars, wsVars, shutdownVars, watchVars >>
    /\ reloads' = reloads + 1
    /\ validate(c) = "Err"
    /\ last_reload' = [ok |-> FALSE, started |-> 0]
    /\ last_init' = [op |-> "reload", res |-> "Err", failed |-> {}]
    /\ plugins' = << >>
    /\ rules' = << >>
    /\ UNCHANGED << config, action_executor, event_sender, buses, tasks, epoch,
                    nextId, sent, dropped, events_dropped_total, deqLog,
                    execLog >>

\* Engine::reload(new_config)
\* A task spawned by an earlier reload has been polled by the runtime before
\* the next reload starts (reloads are at least the debounce interval apart).
Reload(c) ==
    /\ event_sender # NoBus
    /\ reloads < MaxReloads
    /\ UNCHANGED << pluginVars, libVars, metricsVars, windowVars, wsVars, shutdownVars, watchVars >>
    /\ \A t \in 1..Len(tasks) :
          buses[tasks[t].bus].senders \/ tasks[t].pc = "stopped"
    /\ reloads' = reloads + 1
    /\ IF validate(c) = "Err"
       THEN /\ last_reload' = [ok |-> FALSE, started |-> 0]
            /\ last_init' = [op |-> "reload", res |-> "Err", failed |-> {}]
            /\ UNCHANGED << config, plugins, rules, action_executor, event_sender,
                            buses, tasks, epoch, nextId, sent, dropped,
                            events_dropped_total, deqLog, execLog >>
       ELSE /\ \E started \in SUBSET EnabledSources(c) :
                 /\ plugins' = initialize_plugins(<< >>, c, started)
                 /\ last_reload' = [ok |-> TRUE, started |-> Cardinality(started)]
                 /\ last_init' = [op |-> "reload", res |-> "Ok",
                                  failed |-> EnabledSources(c) \ started]
            /\ config' = c
            /\ rules' = initialize_rules(<< >>, c, epoch + 1)
            /\ action_executor' = initialize_actions(action_executor, c, epoch + 1)
            /\ buses' = Append(buses, create_event_bus(FALSE))
            /\ tasks' = Append(tasks, NewTask(rules', action_executor', Len(buses) + 1,
                                    epoch + 1))
            /\ epoch' = epoch + 1
            /\ UNCHANGED << event_sender, nextId, sent, dropped,
                            events_dropped_total, deqLog, execLog >>

\* A started plugin builds an Event and calls emitter.try_send.
Emit(kind) ==
    /\ event_sender # NoBus
    /\ UNCHANGED << pluginVars, libVars, metricsVars, windowVars, wsVars, shutdownVars, watchVars, last_init >>
    /\ Len(plugins) > 0
    /\ nextId <= MaxEvents
    /\ nextId' = nextId + 1
    /\ LET ev == [id |-> nextId, kind |-> kind, epoch |-> epoch]
           b == event_sender
           r == try_send(buses[b], ev, BufferSize)
       IN IF r.ok
          THEN /\ buses' = [buses EXCEPT ![b] = r.bus]
               /\ sent' = sent \cup {nextId}
               /\ UNCHANGED dropped
          ELSE \* error!("Failed to send event") and nothing else
               /\ dropped' = dropped + 1
               /\ UNCHANGED << buses, sent >>
    /\ UNCHANGED << config, plugins, rules, action_executor, event_sender, tasks,
                    epoch, events_dropped_total, deqLog, execLog, reloads,
                    last_reload >>

\* Dispatch task: receiver.recv() returns Some(event).
DispatchRecv(t) ==
    /\ t \in 1..Len(tasks)
    /\ UNCHANGED << pluginVars, libVars, metricsVars, windowVars, wsVars, shutdownVars, watchVars, last_init >>
    /\ tasks[t].pc = "recv"
    /\ Len(buses[tasks[t].bus].queue) > 0
    /\ LET b == tasks[t].bus
           r == recv(buses[b])
           ev == r.event
       IN /\ buses' = [buses EXCEPT ![b] = r.bus]
          /\ deqLog' = Append(deqLog, [ev |-> ev, task |-> t])
          /\ tasks' = [tasks EXCEPT ![t].event = ev,
                                    ![t].idx = 0,
                                    ![t].pc = IF Len(tasks[t].rules) = 0
                                              THEN "recv" ELSE "rules"]
    /\ UNCHANGED << config, plugins, rules, action_executor, event_sender, epoch,
                    nextId, sent, dropped, events_dropped_total, execLog, reloads,
                    last_reload >>

\* ActionError: Execution, Configuration, Timeout.
ActionErrors == {"Execution", "Configuration", "Timeout"}

\* Variant of after_action in which an action error ends the dispatch task.
after_action_abort(outcome, next) ==
    IF outcome \in ActionErrors THEN "stopped" ELSE next

\* Dispatch task, the match on the result of action_executor.execute: Ok is
\* logged with info!, Err with error!, and the loop goes on either way.
after_action(outcome, next) == next

\* Dispatch task: one iteration of `for (idx, rule) in rules.iter().enumerate()`.
\* A log action returns Ok at once; an execute action spawns its child and
\* waits for it; a name that is not registered gives Err(Configuration).
DispatchRule(t) ==
    /\ t \in 1..Len(tasks)
    /\ UNCHANGED << pluginVars, libVars, metricsVars, windowVars, wsVars, shutdownVars, watchVars, last_init >>
    /\ tasks[t].pc = "rules"
    /\ LET idx == tasks[t].idx
           rule == tasks[t].rules[idx + 1]
           ev == tasks[t].event
           last == idx + 1 = Len(tasks[t].rules)
           hit == rule.enabled /\ Rule_matches(rule, ev)
           res == execute(tasks[t].actions, idx)
           next == IF last THEN "recv" ELSE "rules"
           outcome == IF ~res.ok THEN res.error
                      ELSE IF res.action.kind = "execute" THEN "pending"
                      ELSE "Ok"
       IN /\ IF hit
             THEN execLog' = Append(execLog,
                                [ev |-> ev, task |-> t, idx |-> idx,
                                 rule |-> rule, result |-> res,
                                 outcome |-> outcome])
             ELSE UNCHANGED execLog
          /\ tasks' = [tasks EXCEPT
                          ![t].idx = idx + 1,
                          ![t].pc = IF ~hit THEN next
                                    ELSE IF outcome = "pending" THEN "wait"
                                    ELSE after_action(outcome, next)]
    /\ UNCHANGED << config, plugins, rules, action_executor, event_sender, buses,
                    epoch, nextId, sent, dropped, events_dropped_total, deqLog,
                    reloads, last_reload >>

\* Index in execLog of the execution task t is waiting for.
PendingOf(t) ==
    CHOOSE i \in 1..Len(execLog) :
        execLog[i].task = t /\ execLog[i].outcome = "pending"

\* The child process of an execute action exits: wait_with_output returns,
\* the action returns Ok for exit status 0 and Err(Execution) otherwise, and
\* the rule loop goes on.  Whether and when the child exits is up to the child.
ChildExit(t) ==
    /\ t \in 1..Len(tasks)
    /\ UNCHANGED << pluginVars, libVars, metricsVars, windowVars, wsVars, shutdownVars, watchVars, last_init >>
    /\ tasks[t].pc = "wait"
    /\ \E outcome \in {"Ok", "Execution"} :
          /\ execLog' = [execLog EXCEPT ![PendingOf(t)].outcome = outcome]
          /\ tasks' = [tasks EXCEPT ![t].pc =
                          after_action(outcome,
                                       IF tasks[t].idx = Len(tasks[t].rules)
                                       THEN "recv" ELSE "rules")]
    /\ UNCHANGED << config, plugins, rules, action_executor, event_sender, buses,
                    epoch, nextId, sent, dropped, events_dropped_total, deqLog,
                    reloads, last_reload >>

\* Dispatch task: receiver.recv() returns None (every sender dropped).
DispatchClosed(t) ==
    /\ t \in 1..Len(tasks)
    /\ UNCHANGED << pluginVars, libVars, metricsVars, windowVars, wsVars, shutdownVars, watchVars, last_init >>
    /\ tasks[t].pc = "recv"
    /\ Len(buses[tasks[t].bus].queue) = 0
    /\ ~buses[tasks[t].bus].senders
    /\ tasks' = [tasks EXCEPT ![t] = StoppedTask(tasks[t].bus, tasks[t].epoch)]
    /\ UNCHANGED << config, plugins, rules, action_executor, event_sender, buses,
                    epoch, nextId, sent, dropped, events_dropped_total, deqLog,
                    execLog, reloads, last_reload >>

\* ---------------------------------------------------------------------------
\* Source plugins: start / stop, the dedicated OS thread, the forwarding task.
\* "process" and "registry" share the ETW code shape; "window" is the
\* SetWinEventHook plugin; "file" is the notify watcher.

PluginTypes == {"file", "window", "process", "registry"}

IsEtw == ptype \in {"process", "registry"}

ThreadDone(g) == th[g] \in {"failed", "exited"}

\* Every Sender of generation g's bridge channel has been dropped: the one
\* the plugin keeps in self.event_sender and the one the thread owns.
Disconnected(g) == p_sender # g /\ th[g] \in {"none", "failed", "exited"}

\* A start / stop call returns res.
Returns(op, res, thState) ==
    /\ p_calls' = p_calls + 1
    /\ p_ret' = [op |-> op, res |-> res, thread |-> thState]
    /\ main_pc' = "idle"

\* start(): `if self.is_running { return Ok(()) }`.
start_already_running ==
    /\ main_pc = "idle"
    /\ p_calls < MaxCalls
    /\ is_running
    /\ Returns("start", "Ok", None)
    /\ UNCHANGED << ptype, p_empty, is_running, p_handle, p_sender, th, fw,
                    chan, gen, os_events, expect_running, p_emits >>
    /\ UNCHANGED << engineVars, libVars, metricsVars, windowVars, wsVars, shutdownVars, watchVars >>

\* start() of the file watcher without paths, of the registry monitor
\* without keys.
start_no_paths ==
    /\ main_pc = "idle"
    /\ p_calls < MaxCalls
    /\ ~is_running
    /\ ptype \in {"file", "registry"}
    /\ p_empty
    /\ Returns("start", "Configuration", None)
    /\ UNCHANGED << ptype, p_empty, is_running, p_handle, p_sender, th, fw,
                    chan, gen, os_events, expect_running, p_emits >>
    /\ UNCHANGED << engineVars, libVars, metricsVars, windowVars, wsVars, shutdownVars, watchVars >>

\* File watcher start(): the watcher is created with its callback and the
\* paths are watched; is_running is still false.
start_watch_paths ==
    /\ main_pc = "idle"
    /\ p_calls < MaxCalls
    /\ ~is_running
    /\ ptype = "file"
    /\ ~p_empty
    /\ gen < MaxStarts
    /\ gen' = gen + 1
    /\ th' = [th EXCEPT ![gen + 1] = "running"]
    /\ main_pc' = "start_set"
    /\ UNCHANGED << ptype, p_empty, is_running, p_handle, p_sender, fw, chan,
                    os_events, p_calls, p_ret, expect_running, p_emits >>
    /\ UNCHANGED << engineVars, libVars, metricsVars, windowVars, wsVars, shutdownVars, watchVars >>

\* File watcher start(): watch() of a path fails; `?` drops the watcher.
start_watch_failed ==
    /\ main_pc = "start_set"
    /\ th' = [th EXCEPT ![gen] = "exited"]
    /\ Returns("start", "Initialization", "exited")
    /\ UNCHANGED << ptype, p_empty, is_running, p_handle, p_sender, fw, chan,
                    gen, os_events, expect_running, p_emits >>
    /\ UNCHANGED << engineVars, libVars, metricsVars, windowVars, wsVars, shutdownVars, watchVars >>

\* File watcher start(): `self.watcher = Some(watcher); self.is_running = true`.
start_watching ==
    /\ main_pc = "start_set"
    /\ p_handle' = gen
    /\ is_running' = TRUE
    /\ expect_running' = TRUE
    /\ Returns("start", "Ok", th[gen])
    /\ UNCHANGED << ptype, p_empty, p_sender, th, fw, chan, gen, os_events,
                    p_emits >>
    /\ UNCHANGED << engineVars, libVars, metricsVars, windowVars, wsVars, shutdownVars, watchVars >>

\* Window / ETW start() up to the sleep: the channel is created, the thread
\* is spawned. The window plugin has already stored is_running = true.
start_spawn_thread ==
    /\ main_pc = "idle"
    /\ p_calls < MaxCalls
    /\ ~is_running
    /\ ptype # "file"
    /\ ~(ptype = "registry" /\ p_empty)
    /\ gen < MaxStarts
    /\ gen' = gen + 1
    /\ is_running' = (ptype = "window")
    /\ p_sender' = gen + 1
    /\ p_handle' = gen + 1
    /\ th' = [th EXCEPT ![gen + 1] = "starting"]
    /\ main_pc' = "start_sleep"
    /\ UNCHANGED << ptype, p_empty, fw, chan, os_events, p_calls, p_ret,
                    expect_running, p_emits >>
    /\ UNCHANGED << engineVars, libVars, metricsVars, windowVars, wsVars, shutdownVars, watchVars >>

\* Variant of start_check_thread that leaves is_running as it is when the
\* thread has finished.
start_check_thread_keeps_flag ==
    /\ main_pc = "start_sleep"
    /\ IF ThreadDone(p_handle)
       THEN /\ p_handle' = 0
            /\ p_sender' = 0
            /\ fw' = [fw EXCEPT ![p_handle] = "done"]
            /\ Returns("start", "Initialization", th[p_handle])
            /\ UNCHANGED << is_running, expect_running >>
       ELSE /\ is_running' = TRUE
            /\ expect_running' = TRUE
            /\ fw' = [fw EXCEPT ![p_handle] = "check"]
            /\ Returns("start", "Ok", th[p_handle])
            /\ UNCHANGED << p_handle, p_sender >>
    /\ UNCHANGED << ptype, p_empty, th, chan, gen, os_events, p_emits >>
    /\ UNCHANGED << engineVars, libVars, metricsVars, windowVars, wsVars, shutdownVars, watchVars >>

\* Window / ETW start() after the sleep: `is_finished()` on the thread.
start_check_thread ==
    /\ main_pc = "start_sleep"
    /\ IF ThreadDone(p_handle)
       THEN /\ is_running' = FALSE
            /\ p_handle' = 0
            /\ p_sender' = 0
            /\ fw' = [fw EXCEPT ![p_handle] = "done"]
            /\ Returns("start", "Initialization", th[p_handle])
            /\ UNCHANGED expect_running
       ELSE /\ is_running' = TRUE
            /\ expect_running' = TRUE
            /\ fw' = [fw EXCEPT ![p_handle] = "check"]
            /\ Returns("start", "Ok", th[p_handle])
            /\ UNCHANGED << p_handle, p_sender >>
    /\ UNCHANGED << ptype, p_empty, th, chan, gen, os_events, p_emits >>
    /\ UNCHANGED << engineVars, libVars, metricsVars, windowVars, wsVars, shutdownVars, watchVars >>

\* stop(): the file watcher unwatches and drops its watcher and returns; the
\* others clear the flag and the sender and join the thread.
stop ==
    /\ main_pc = "idle"
    /\ p_calls < MaxCalls
    /\ is_running' = FALSE
    /\ expect_running' = FALSE
    /\ IF ptype = "file"
       THEN /\ th' = [g \in Gens |-> IF g = p_handle THEN "exited" ELSE th[g]]
            /\ p_handle' = 0
            /\ Returns("stop", "Ok", None)
            /\ UNCHANGED p_sender
       ELSE /\ p_sender' = 0
            /\ IF p_handle # 0
               THEN /\ main_pc' = "stop_join"
                    /\ UNCHANGED << p_calls, p_ret >>
               ELSE Returns("stop", "Ok", None)
            /\ UNCHANGED << th, p_handle >>
    /\ UNCHANGED << ptype, p_empty, fw, chan, gen, os_events, p_emits >>
    /\ UNCHANGED << engineVars, libVars, metricsVars, windowVars, wsVars, shutdownVars, watchVars >>

\* stop(): `thread.join()` returns once the thread has finished.
stop_join ==
    /\ main_pc = "stop_join"
    /\ ThreadDone(p_handle)
    /\ p_handle' = 0
    /\ Returns("stop", "Ok", th[p_handle])
    /\ UNCHANGED << ptype, p_empty, is_running, p_sender, th, fw, chan, gen,
                    os_events, expect_running, p_emits >>
    /\ UNCHANGED << engineVars, libVars, metricsVars, windowVars, wsVars, shutdownVars, watchVars >>

\* The dedicated thread finishes its set-up: the three hooks are installed
\* (run_message_loop), or the ETW session is created and its trace opened
\* (run_etw_session).
thread_init_ok(g) ==
    /\ th[g] = "starting"
    /\ th' = [th EXCEPT ![g] = IF ptype = "window" THEN "check" ELSE "running"]
    /\ UNCHANGED << ptype, p_empty, is_running, p_handle, p_sender, fw, chan,
                    main_pc, gen, os_events, p_calls, p_ret, expect_running,
                    p_emits >>
    /\ UNCHANGED << engineVars, libVars, metricsVars, windowVars, wsVars, shutdownVars, watchVars >>

\* The set-up fails and the thread function returns Err.
thread_init_failed(g) ==
    /\ th[g] = "starting"
    /\ th' = [th EXCEPT ![g] = "failed"]
    /\ UNCHANGED << ptype, p_empty, is_running, p_handle, p_sender, fw, chan,
                    main_pc, gen, os_events, p_calls, p_ret, expect_running,
                    p_emits >>
    /\ UNCHANGED << engineVars, libVars, metricsVars, windowVars, wsVars, shutdownVars, watchVars >>

\* run_message_loop: `while is_running.load(..)`, else unhook and return.
message_loop_check(g) ==
    /\ th[g] = "check"
    /\ th' = [th EXCEPT ![g] = IF is_running THEN "getmsg" ELSE "exited"]
    /\ UNCHANGED << ptype, p_empty, is_running, p_handle, p_sender, fw, chan,
                    main_pc, gen, os_events, p_calls, p_ret, expect_running,
                    p_emits >>
    /\ UNCHANGED << engineVars, libVars, metricsVars, windowVars, wsVars, shutdownVars, watchVars >>

\* run_message_loop: GetMessageW returns with a window notification;
\* win_event_callback sends it on the channel whatever is_running is.
win_event_callback(g) ==
    /\ th[g] = "getmsg"
    /\ os_events < MaxOsEvents
    /\ os_events' = os_events + 1
    /\ chan' = [chan EXCEPT ![g] = IF fw[g] = "done" THEN @ ELSE @ + 1]
    /\ th' = [th EXCEPT ![g] = "check"]
    /\ UNCHANGED << ptype, p_empty, is_running, p_handle, p_sender, fw,
                    main_pc, gen, p_calls, p_ret, expect_running, p_emits >>
    /\ UNCHANGED << engineVars, libVars, metricsVars, windowVars, wsVars, shutdownVars, watchVars >>

\* ProcessTrace delivers a kernel event; etw_event_callback sends it on the
\* channel only while is_running is set.
etw_event_callback(g) ==
    /\ th[g] = "running"
    /\ IsEtw
    /\ os_events < MaxOsEvents
    /\ os_events' = os_events + 1
    /\ chan' = [chan EXCEPT ![g] =
                   IF is_running /\ fw[g] # "done" THEN @ + 1 ELSE @]
    /\ UNCHANGED << ptype, p_empty, is_running, p_handle, p_sender, th, fw,
                    main_pc, gen, p_calls, p_ret, expect_running, p_emits >>
    /\ UNCHANGED << engineVars, libVars, metricsVars, windowVars, wsVars, shutdownVars, watchVars >>

\* ProcessTrace returns (the session was stopped from outside the program);
\* the thread cleans up and finishes.
etw_session_ends(g) ==
    /\ th[g] = "running"
    /\ IsEtw
    /\ th' = [th EXCEPT ![g] = "exited"]
    /\ UNCHANGED << ptype, p_empty, is_running, p_handle, p_sender, fw, chan,
                    main_pc, gen, os_events, p_calls, p_ret, expect_running,
                    p_emits >>
    /\ UNCHANGED << engineVars, libVars, metricsVars, windowVars, wsVars, shutdownVars, watchVars >>

\* The notify callback of the file watcher: it calls emitter.try_send.
watcher_callback(g) ==
    /\ th[g] = "running"
    /\ ptype = "file"
    /\ os_events < MaxOsEvents
    /\ os_events' = os_events + 1
    /\ p_emits' = Append(p_emits, [gen |-> g, running |-> is_running])
    /\ UNCHANGED << ptype, p_empty, is_running, p_handle, p_sender, th, fw,
                    chan, main_pc, gen, p_calls, p_ret, expect_running >>
    /\ UNCHANGED << engineVars, libVars, metricsVars, windowVars, wsVars, shutdownVars, watchVars >>

\* Forwarding task: `while is_running.load(..)`. The window task then polls
\* try_recv; the ETW task awaits recv.
forward_check(g) ==
    /\ fw[g] = "check"
    /\ IF ~is_running
       THEN fw' = [fw EXCEPT ![g] = "done"] /\ UNCHANGED chan
       ELSE IF IsEtw
       THEN fw' = [fw EXCEPT ![g] = "recv"] /\ UNCHANGED chan
       ELSE IF chan[g] > 0
       THEN /\ fw' = [fw EXCEPT ![g] = "have"]
            /\ chan' = [chan EXCEPT ![g] = @ - 1]
       ELSE /\ Disconnected(g)
            /\ fw' = [fw EXCEPT ![g] = "done"]
            /\ UNCHANGED chan
    /\ UNCHANGED << ptype, p_empty, is_running, p_handle, p_sender, th,
                    main_pc, gen, os_events, p_calls, p_ret, expect_running,
                    p_emits >>
    /\ UNCHANGED << engineVars, libVars, metricsVars, windowVars, wsVars, shutdownVars, watchVars >>

\* Window forwarding task: the received notification is filtered, converted
\* and handed to emitter.try_send.
forward_send(g) ==
    /\ fw[g] = "have"
    /\ p_emits' = Append(p_emits, [gen |-> g, running |-> is_running])
    /\ fw' = [fw EXCEPT ![g] = "check"]
    /\ UNCHANGED << ptype, p_empty, is_running, p_handle, p_sender, th, chan,
                    main_pc, gen, os_events, p_calls, p_ret, expect_running >>
    /\ UNCHANGED << engineVars, libVars, metricsVars, windowVars, wsVars, shutdownVars, watchVars >>

\* ETW forwarding task: recv().await completes with an event, which is
\* converted and handed to emitter.try_send, or with None.
forward_recv(g) ==
    /\ fw[g] = "recv"
    /\ IF chan[g] > 0
       THEN /\ chan' = [chan EXCEPT ![g] = @ - 1]
            /\ p_emits' = Append(p_emits, [gen |-> g, running |-> is_running])
            /\ fw' = [fw EXCEPT ![g] = "check"]
       ELSE /\ Disconnected(g)
            /\ fw' = [fw EXCEPT ![g] = "done"]
            /\ UNCHANGED << chan, p_emits >>
    /\ UNCHANGED << ptype, p_empty, is_running, p_handle, p_sender, th,
                    main_pc, gen, os_events, p_calls, p_ret, expect_running >>
    /\ UNCHANGED << engineVars, libVars, metricsVars, windowVars, wsVars, shutdownVars, watchVars >>

PluginInit ==
    /\ EngineNew(create_demo_config)
    /\ \E t \in PluginTypes, e \in BOOLEAN :
          /\ e => t \in {"file", "registry"}
          /\ PluginNew(t, e)
    /\ LibNew
    /\ MetricsNew
    /\ WindowNew
    /\ WsNew
    /\ ShutdownNew
    /\ WatchNew

PluginNext ==
    \/ start_already_running
    \/ start_no_paths
    \/ start_watch_paths
    \/ start_watch_failed
    \/ start_watching
    \/ start_spawn_thread
    \/ start_check_thread
    \/ stop
    \/ stop_join
    \/ \E g \in Gens : thread_init_ok(g)
    \/ \E g \in Gens : thread_init_failed(g)
    \/ \E g \in Gens : message_loop_check(g)
    \/ \E g \in Gens : win_event_callback(g)
    \/ \E g \in Gens : etw_event_callback(g)
    \/ \E g \in Gens : etw_session_ends(g)
    \/ \E g \in Gens : watcher_callback(g)
    \/ \E g \in Gens : forward_check(g)
    \/ \E g \in Gens : forward_send(g)
    \/ \E g \in Gens : forward_recv(g)

PluginSpec == PluginInit /\ [][PluginNext]_vars

\* The plugin behaviours with the scheduling the program's own threads and
\* tasks get: the dedicated thread, the forwarding task and a stop() waiting
\* in join take their steps when they can. Nothing is assumed of the OS: no
\* further window message or trace event has to arrive, and nobody outside
\* the program has to end the trace session.
PluginLiveSpec ==
    /\ PluginInit /\ [][PluginNext]_vars
    /\ WF_vars(stop_join)
    /\ WF_vars(\E g \in Gens : thread_init_ok(g) \/ thread_init_failed(g))
    /\ WF_vars(\E g \in Gens : message_loop_check(g))
    /\ WF_vars(\E g \in Gens : forward_check(g))
    /\ WF_vars(\E g \in Gens : forward_send(g))
    /\ WF_vars(\E g \in Gens : forward_recv(g))

\* ---------------------------------------------------------------------------
\* Library functions: matchers and actions.  Each behaviour of LibSpec makes
\* one call, with arguments drawn from bounded sets; fcall records the call
\* and what it returned.

MaxField == 1        \* values a field of an event kind ranges over: 0..MaxField

\* The variants of EventKind.
FileVariants == {"FileCreated", "FileModified", "FileDeleted"}
WindowVariants == {"WindowFocused", "WindowUnfocused", "WindowCreated",
                   "WindowDestroyed"}
EventKindVariants ==
    FileVariants \cup WindowVariants \cup
    {"FileRenamed", "ProcessStarted", "ProcessStopped", "ThreadCreated",
     "ThreadDestroyed", "FileAccessed", "FileIoRead", "FileIoWrite",
     "FileIoDelete", "NetworkConnectionCreated", "NetworkConnectionClosed",
     "RegistryChanged", "TimerTick"}

\* An EventKind value: its variant and the contents of its fields (the path,
\* for the file variants).
EventKindValues == [variant : EventKindVariants, data : 0..MaxField]

\* matches_event_kind(expected, actual)
matches_event_kind(expected, actual) ==
    IF expected.variant = "TimerTick" /\ actual.variant = "TimerTick"
    THEN TRUE
    ELSE IF expected.variant \in FileVariants
            /\ actual.variant = expected.variant
    THEN expected.data = actual.data
    ELSE IF expected.variant \in WindowVariants
            /\ actual.variant = expected.variant
    THEN TRUE
    ELSE FALSE

\* Engine::create_rule: the EventKind of the EventKindMatcher built for a
\* trigger type; every field is zero or empty.
TriggerKinds == {"window_created", "process_started", "process_stopped",
                 "registry_changed", "timer"}

trigger_event_kind(trigger) ==
    [variant |-> CASE trigger = "window_created" -> "WindowCreated"
                   [] trigger = "process_started" -> "ProcessStarted"
                   [] trigger = "process_stopped" -> "ProcessStopped"
                   [] trigger = "registry_changed" -> "RegistryChanged"
                   [] trigger = "timer" -> "TimerTick",
     data |-> 0]

\* EventKindMatcher::matches on an event of kind actual.
CallEventKindMatcher ==
    /\ fcall.fn = None
    /\ \E expected, actual \in EventKindValues :
          fcall' = [fn |-> "EventKindMatcher::matches", kind |-> expected,
                    event |-> actual,
                    out |-> matches_event_kind(expected, actual)]
    /\ UNCHANGED << engineVars, pluginVars, metricsVars, windowVars, wsVars, shutdownVars, watchVars >>

\* A rule built by Engine::create_rule for a trigger, applied to an event.
CallTriggerMatcher ==
    /\ fcall.fn = None
    /\ \E trigger \in TriggerKinds, actual \in EventKindValues :
          fcall' = [fn |-> "create_rule", trigger |-> trigger,
                    kind |-> trigger_event_kind(trigger), event |-> actual,
                    out |-> matches_event_kind(trigger_event_kind(trigger),
                                               actual)]
    /\ UNCHANGED << engineVars, pluginVars, metricsVars, windowVars, wsVars, shutdownVars, watchVars >>

\* ---- FilePatternMatcher ----

MaxName == 2         \* longest file name and longest glob pattern, in characters

NameChars == {"a", "b"}
GlobChars == NameChars \cup {"*", "?"}

\* Option<T>: a sequence holding no value or one value.
Nothing == << >>
Some(x) == << x >>
Options(S) == {Nothing} \cup {Some(x) : x \in S}

\* File names (never empty) and glob patterns.
FileNames == SeqsUpTo(NameChars, MaxName) \ {<< >>}
Patterns == SeqsUpTo(GlobChars, MaxName)

\* A path: the root followed by one final component, or the root alone
\* (name = Nothing, for which Path::file_name returns None); utf8 tells
\* whether the final component is valid UTF-8.
Paths ==
    [name : {Some(n) : n \in FileNames}, utf8 : BOOLEAN] \cup
    {[name |-> Nothing, utf8 |-> TRUE]}

\* Path::to_str: the text of the whole path, None when it is not valid UTF-8.
to_str(path) ==
    IF ~path.utf8 THEN Nothing
    ELSE IF path.name = Nothing THEN Some(<< "/" >>)
    ELSE Some(<< "/" >> \o path.name[1])

\* Path::file_name followed by OsStr::to_str.
file_name_str(path) ==
    IF path.name = Nothing THEN Nothing
    ELSE IF ~path.utf8 THEN Nothing
    ELSE path.name

\* glob::Pattern::matches with the default options: "*" stands for any run
\* of characters, "?" for any one character, any other character for itself.
RECURSIVE GlobMatches(_, _)
GlobMatches(pattern, str) ==
    IF pattern = << >> THEN str = << >>
    ELSE IF Head(pattern) = "*"
    THEN \/ GlobMatches(Tail(pattern), str)
         \/ str # << >> /\ GlobMatches(pattern, Tail(str))
    ELSE IF str = << >> THEN FALSE
    ELSE IF Head(pattern) = "?" THEN GlobMatches(Tail(pattern), Tail(str))
    ELSE Head(pattern) = Head(str) /\ GlobMatches(Tail(pattern), Tail(str))

FileEventTypes == {"Created", "Modified", "Deleted", "Any"}

\* The events a file matcher is applied to: every file variant with every
\* path, and every other variant.
FileEvents ==
    [variant : FileVariants, path : Paths] \cup
    [variant : EventKindVariants \ FileVariants,
     path : {[name |-> Nothing, utf8 |-> TRUE]}]

\* FilePatternMatcher::matches
FilePatternMatcher_matches(self, event) ==
    IF event.variant \notin FileVariants THEN FALSE
    ELSE
    LET event_type == CASE event.variant = "FileCreated" -> "Created"
                        [] event.variant = "FileModified" -> "Modified"
                        [] event.variant = "FileDeleted" -> "Deleted"
        path == event.path
    IN  IF self.event_type # "Any" /\ self.event_type # event_type THEN FALSE
        ELSE IF /\ self.path_pattern # Nothing
                /\ to_str(path) # Nothing
                /\ ~GlobMatches(self.path_pattern[1], to_str(path)[1])
        THEN FALSE
        ELSE IF /\ self.file_pattern # Nothing
                /\ file_name_str(path) # Nothing
                /\ ~GlobMatches(self.file_pattern[1], file_name_str(path)[1])
        THEN FALSE
        ELSE TRUE

\* The path patterns FilePatternMatcher::matches is called with.
PathPatterns == {Nothing, Some(<< "*" >>), Some(<< "/", "a" >>)}

CallFilePatternMatcher ==
    /\ fcall.fn = None
    /\ \E event_type \in FileEventTypes, path_pattern \in PathPatterns,
          file_pattern \in Options(Patterns), event \in FileEvents :
          LET self == [event_type |-> event_type,
                       path_pattern |-> path_pattern,
                       file_pattern |-> file_pattern]
          IN  fcall' = [fn |-> "FilePatternMatcher::matches", self |-> self,
                        event |-> event,
                        out |-> FilePatternMatcher_matches(self, event)]
    /\ UNCHANGED << engineVars, pluginVars, metricsVars, windowVars, wsVars, shutdownVars, watchVars >>

\* ---- WindowMatcher ----

WindowEventTypes == {"Focused", "Unfocused", "Created", "Destroyed"}

\* The filters a WindowMatcher is built with, and the window titles and
\* process names events carry.
WindowFilters == SeqsUpTo({"a", "A"}, MaxField)
WindowTexts == {<< >>, << "b" >>, << "b", "A" >>, << "a", "b" >>}

\* str::to_lowercase
to_lowercase(str) ==
    [i \in 1..Len(str) |-> IF str[i] = "A" THEN "a"
                           ELSE IF str[i] = "B" THEN "b" ELSE str[i]]

\* str::contains
contains(str, pat) ==
    \E i \in 0..(Len(str) - Len(pat)) : SubSeq(str, i + 1, i + Len(pat)) = pat

\* The events a window matcher is applied to.  title is the title field of
\* the kind (WindowDestroyed has none); process_name is the metadata entry
\* "process_name", if the event has one.
WindowEvents ==
    [variant : {"WindowFocused", "WindowUnfocused", "WindowCreated"},
     title : {Some(t) : t \in WindowTexts},
     process_name : Options(WindowTexts)] \cup
    [variant : {"WindowDestroyed"}, title : {Nothing},
     process_name : Options(WindowTexts)] \cup
    [variant : EventKindVariants \ WindowVariants, title : {Nothing},
     process_name : {Nothing}]

unwrap_or_default(opt) == IF opt = Nothing THEN << >> ELSE opt[1]

\* WindowMatcher::matches
WindowMatcher_matches(self, event) ==
    IF event.variant \notin WindowVariants THEN FALSE
    ELSE
    LET event_type == CASE event.variant = "WindowFocused" -> "Focused"
                        [] event.variant = "WindowUnfocused" -> "Unfocused"
                        [] event.variant = "WindowCreated" -> "Created"
                        [] event.variant = "WindowDestroyed" -> "Destroyed"
        title == IF event.variant = "WindowDestroyed" THEN << >>
                 ELSE event.title[1]
        process_name ==
            IF event.variant \in {"WindowFocused", "WindowUnfocused"}
            THEN unwrap_or_default(event.process_name)
            ELSE << >>
    IN  IF event_type # self.event_type THEN FALSE
        ELSE IF /\ self.title_contains # Nothing
                /\ ~contains(to_lowercase(title),
                             to_lowercase(self.title_contains[1]))
        THEN FALSE
        ELSE IF /\ self.process_name # Nothing
                /\ ~contains(to_lowercase(process_name),
                             to_lowercase(self.process_name[1]))
        THEN FALSE
        ELSE TRUE

CallWindowMatcher ==
    /\ fcall.fn = None
    /\ \E event_type \in WindowEventTypes,
          title_contains \in Options(WindowFilters),
          process_name \in Options(WindowFilters), event \in WindowEvents :
          LET self == [event_type |-> event_type,
                       title_contains |-> title_contains,
                       process_name |-> process_name]
          IN  fcall' = [fn |-> "WindowMatcher::matches", self |-> self,
                        event |-> event,
                        out |-> WindowMatcher_matches(self, event)]
    /\ UNCHANGED << engineVars, pluginVars, metricsVars, windowVars, wsVars, shutdownVars, watchVars >>

\* ---- CompositeMatcher ----

MaxChildren == 3     \* longest list of children of a composite

MatchOperators == {"And", "Or"}

\* The children a CompositeMatcher is built from.
ChildMatchers ==
    {[event_type |-> "Created", path_pattern |-> Nothing,
      file_pattern |-> Nothing],
     [event_type |-> "Created", path_pattern |-> Nothing,
      file_pattern |-> Some(<< "*", "b" >>)],
     [event_type |-> "Any", path_pattern |-> Nothing,
      file_pattern |-> Some(<< "a", "*" >>)],
     [event_type |-> "Modified", path_pattern |-> Nothing,
      file_pattern |-> Nothing]}

\* The events a CompositeMatcher is applied to.
CompositeEvents ==
    {[variant |-> "FileCreated",
      path |-> [name |-> Some(<< "a", "b" >>), utf8 |-> TRUE]],
     [variant |-> "FileCreated",
      path |-> [name |-> Some(<< "a" >>), utf8 |-> TRUE]],
     [variant |-> "FileModified",
      path |-> [name |-> Some(<< "b" >>), utf8 |-> TRUE]],
     [variant |-> "TimerTick", path |-> [name |-> Nothing, utf8 |-> TRUE]]}

\* Iterator::all and Iterator::any over the children, the first n of which
\* have been asked: the answer, and how many children were asked in all.
RECURSIVE iter_all(_, _, _)
iter_all(matchers, event, n) ==
    IF n = Len(matchers) THEN [out |-> TRUE, evaluated |-> n]
    ELSE IF ~FilePatternMatcher_matches(matchers[n + 1], event)
    THEN [out |-> FALSE, evaluated |-> n + 1]
    ELSE iter_all(matchers, event, n + 1)

RECURSIVE iter_any(_, _, _)
iter_any(matchers, event, n) ==
    IF n = Len(matchers) THEN [out |-> FALSE, evaluated |-> n]
    ELSE IF FilePatternMatcher_matches(matchers[n + 1], event)
    THEN [out |-> TRUE, evaluated |-> n + 1]
    ELSE iter_any(matchers, event, n + 1)

\* Variant of CompositeMatcher::matches that asks every child before it
\* combines the answers.
CompositeMatcher_matches_eager(self, event) ==
    LET answers == [i \in 1..Len(self.matchers) |->
                       FilePatternMatcher_matches(self.matchers[i], event)]
    IN  [out |-> IF self.operator = "And"
                 THEN \A i \in 1..Len(answers) : answers[i]
                 ELSE \E i \in 1..Len(answers) : answers[i],
         evaluated |-> Len(answers)]

\* CompositeMatcher::matches
CompositeMatcher_matches(self, event) ==
    IF self.operator = "And" THEN iter_all(self.matchers, event, 0)
    ELSE iter_any(self.matchers, event, 0)

CallCompositeMatcher ==
    /\ fcall.fn = None
    /\ \E operator \in MatchOperators,
          matchers \in SeqsUpTo(ChildMatchers, MaxChildren),
          event \in CompositeEvents :
          LET self == [matchers |-> matchers, operator |-> operator]
              r == CompositeMatcher_matches(self, event)
          IN  fcall' = [fn |-> "CompositeMatcher::matches", self |-> self,
                        event |-> event, out |-> r.out,
                        evaluated |-> r.evaluated]
    /\ UNCHANGED << engineVars, pluginVars, metricsVars, windowVars, wsVars, shutdownVars, watchVars >>

\* ---- CompositeAction ----

ErrorBehaviors == {"Continue", "Stop", "SkipRemaining"}

\* What a child action returns when executed: Ok with an ActionResult, or
\* Err with an ActionError.
OkResults == {"Success", "Skipped"}
ChildOutcomes == OkResults \cup ActionErrors

\* Variants of the `match self.on_error` of CompositeAction::execute, one
\* arm changed in each.
on_error_arm_stop_continues(on_error) ==
    CASE on_error = "Continue" -> "continue"
      [] on_error = "Stop" -> "continue"
      [] on_error = "SkipRemaining" -> "break"

on_error_arm_continue_breaks(on_error) ==
    CASE on_error = "Continue" -> "break"
      [] on_error = "Stop" -> "return"
      [] on_error = "SkipRemaining" -> "break"

on_error_arm_skip_continues(on_error) ==
    CASE on_error = "Continue" -> "continue"
      [] on_error = "Stop" -> "return"
      [] on_error = "SkipRemaining" -> "continue"

\* The `match self.on_error` of CompositeAction::execute: what the loop
\* does after a child returned an error.
on_error_arm(on_error) ==
    CASE on_error = "Continue" -> "continue"
      [] on_error = "Stop" -> "return"
      [] on_error = "SkipRemaining" -> "break"

\* The loop of CompositeAction::execute from child i on; actions[i] is what
\* child i returns, results the Ok results collected, executed the children
\* executed so far.  message is the number in "Executed {} actions".
RECURSIVE execute_loop(_, _, _, _)
execute_loop(self, i, results, executed) ==
    IF i > Len(self.actions)
    THEN [ret |-> "Ok", err |-> None, message |-> Len(results),
          executed |-> executed]
    ELSE IF self.actions[i] \in OkResults
    THEN execute_loop(self, i + 1, Append(results, self.actions[i]),
                      Append(executed, i))
    ELSE LET arm == on_error_arm(self.on_error)
         IN  IF arm = "continue"
             THEN execute_loop(self, i + 1, results, Append(executed, i))
             ELSE IF arm = "return"
             THEN [ret |-> "Err", err |-> self.actions[i], message |-> None,
                   executed |-> Append(executed, i)]
             ELSE [ret |-> "Ok", err |-> None, message |-> Len(results),
                   executed |-> Append(executed, i)]

\* CompositeAction::execute
CompositeAction_execute(self) == execute_loop(self, 1, << >>, << >>)

CallCompositeAction ==
    /\ fcall.fn = None
    /\ \E on_error \in ErrorBehaviors,
          actions \in SeqsUpTo(ChildOutcomes, MaxChildren) :
          LET self == [actions |-> actions, on_error |-> on_error]
              r == CompositeAction_execute(self)
          IN  fcall' = [fn |-> "CompositeAction::execute", self |-> self,
                        ret |-> r.ret, err |-> r.err, message |-> r.message,
                        executed |-> r.executed]
    /\ UNCHANGED << engineVars, pluginVars, metricsVars, windowVars, wsVars, shutdownVars, watchVars >>

\* ---- ScriptAction ----

ScriptErrorBehaviors == {"Fail", "Continue", "Log"}

\* Texts a script returns as its message or raises as its error, as
\* sequences of words.
ScriptTexts == SeqsUpTo({"x", "y"}, MaxField)

\* What the call of the entry function gives: a runtime error with its
\* text, a value that is not a table, or a table with its "success" field
\* (a boolean, or absent) and its "message" field (a string, or absent).
ScriptReturns ==
    [type : {"error"}, text : ScriptTexts] \cup
    [type : {"value"}] \cup
    [type : {"table"}, success : Options(BOOLEAN),
     message : Options(ScriptTexts)]

\* How far ScriptAction::execute gets before it calls the entry function.
ScriptLoads == {"load_failed", "function_not_found", "called"}

\* table.get::<_, bool>("success"): mlua reads an absent (nil) field as false.
get_success(table) ==
    IF table.success = Nothing THEN FALSE ELSE table.success[1]

\* Variant of continues in which only Continue keeps the action from
\* failing.
continues_unless_log(on_error) == on_error = "Continue"

\* The on_error arms of ScriptAction::execute: TRUE for the arm
\* `Continue | Log`, FALSE for the arm `Fail`.
continues(on_error) == on_error \in {"Continue", "Log"}

\* ScriptAction::execute, for a script that loads as load says and whose
\* entry function gives result.
ScriptAction_execute(self, load, result) ==
    IF load # "called"
    THEN [ret |-> "Err", err |-> "Execution", message |-> Nothing]
    ELSE IF result.type = "error"
    THEN LET error_msg == << "Lua", "execution", "error:" >> \o result.text
         IN  IF continues(self.on_error)
             THEN [ret |-> "Ok", err |-> None,
                   message |-> Some(<< "Error", "but", "continuing:" >>
                                    \o error_msg)]
             ELSE [ret |-> "Err", err |-> "Execution",
                   message |-> Some(error_msg)]
    ELSE
    LET success == IF result.type = "table" THEN get_success(result)
                   ELSE TRUE
        message == IF result.type = "table"
                   THEN unwrap_or_default(result.message)
                   ELSE << >>
    IN  IF success
        THEN [ret |-> "Ok", err |-> None,
              message |-> IF message = << >> THEN Nothing ELSE Some(message)]
        ELSE IF continues(self.on_error)
        THEN [ret |-> "Ok", err |-> None,
              message |-> Some(<< "Failed", "but", "continuing:" >>
                               \o message)]
        ELSE [ret |-> "Err", err |-> "Execution",
              message |-> Some(<< "Script", "returned", "failure:" >>
                               \o message)]

CallScriptAction ==
    /\ fcall.fn = None
    /\ \E on_error \in ScriptErrorBehaviors, load \in ScriptLoads,
          result \in ScriptReturns :
          LET self == [on_error |-> on_error]
              r == ScriptAction_execute(self, load, result)
          IN  fcall' = [fn |-> "ScriptAction::execute", self |-> self,
                        load |-> load, result |-> result, ret |-> r.ret,
                        err |-> r.err, message |-> r.message]
    /\ UNCHANGED << engineVars, pluginVars, metricsVars, windowVars, wsVars, shutdownVars, watchVars >>

\* ---- Script VM setup ----

\* The globals setup_sandbox removes, the os global, and the globals it adds.
RemovedGlobals == {"dofile", "loadfile", "load", "require", "io", "debug"}
ApiGlobals == {"log", "exec", "http", "json", "fs"}
VmGlobals == RemovedGlobals \cup {"os"} \cup ApiGlobals

\* Where a VM is built: ScriptAction::new and ScriptAction::reload build one
\* to validate the script, ScriptAction::execute builds one per event.
VmPurposes == {"new", "reload", "execute"}

\* Variant of SandboxWrites that leaves the global load bound.
SandboxWrites_keeps_load ==
    << << "dofile", "nil" >>, << "loadfile", "nil" >>,
       << "require", "nil" >>, << "io", "nil" >>, << "os", "nil" >>,
       << "debug", "nil" >>,
       << "log", "api" >>, << "exec", "api" >>, << "http", "api" >>,
       << "json", "api" >>, << "fs", "api" >>, << "os", "date_time" >> >>

\* The globals.raw_set calls of setup_sandbox, in order: name and value.
\* "date_time" is the table holding only date and time.
SandboxWrites ==
    << << "dofile", "nil" >>, << "loadfile", "nil" >>, << "load", "nil" >>,
       << "require", "nil" >>, << "io", "nil" >>, << "os", "nil" >>,
       << "debug", "nil" >>,
       << "log", "api" >>, << "exec", "api" >>, << "http", "api" >>,
       << "json", "api" >>, << "fs", "api" >>, << "os", "date_time" >> >>

\* Lua::new(): the standard library is loaded; the debug library may or may
\* not be among it.
LuaNew ==
    /\ fcall.fn = None
    /\ \E purpose \in VmPurposes, debug \in {"std", "nil"} :
          fcall' = [fn |-> "Lua::new", purpose |-> purpose, pc |-> 0,
                    globals |-> [g \in VmGlobals |->
                                    IF g = "debug" THEN debug
                                    ELSE IF g \in ApiGlobals THEN "nil"
                                    ELSE "std"]]
    /\ UNCHANGED << engineVars, pluginVars, metricsVars, windowVars, wsVars, shutdownVars, watchVars >>

\* setup_sandbox: the next globals.raw_set.
setup_sandbox_step ==
    /\ fcall.fn = "Lua::new"
    /\ fcall.pc < Len(SandboxWrites)
    /\ LET w == SandboxWrites[fcall.pc + 1]
       IN  fcall' = [fcall EXCEPT !.pc = fcall.pc + 1,
                                  !.globals[w[1]] = w[2]]
    /\ UNCHANGED << engineVars, pluginVars, metricsVars, windowVars, wsVars, shutdownVars, watchVars >>

\* setup_sandbox returns an error (a `?` fired): the caller returns it and
\* the script is not loaded.
setup_sandbox_fails ==
    /\ fcall.fn = "Lua::new"
    /\ fcall.pc < Len(SandboxWrites)
    /\ fcall' = [fcall EXCEPT !.fn = "setup_sandbox failed"]
    /\ UNCHANGED << engineVars, pluginVars, metricsVars, windowVars, wsVars, shutdownVars, watchVars >>

\* lua.load(script_content) ... exec(): the user script is loaded into the
\* VM setup_sandbox has returned from.
load_script ==
    /\ fcall.fn = "Lua::new"
    /\ fcall.pc = Len(SandboxWrites)
    /\ fcall' = [fcall EXCEPT !.fn = "lua.load"]
    /\ UNCHANGED << engineVars, pluginVars, metricsVars, windowVars, wsVars, shutdownVars, watchVars >>

\* ---- Script file API: fs.move, fs.delete ----

MaxPath == 2         \* longest path handed to the file API, in components

PathComponents == {"cwd", "tmp", "home", "Documents", "etc", ".."}

\* A path string handed to fs.move or fs.delete: absolute or relative, and
\* its components.
ScriptPaths == [abs : BOOLEAN, comps : SeqsUpTo(PathComponents, MaxPath)]

\* std::env::current_dir(), std::env::temp_dir(), home_dir().join("Documents")
current_dir == << "cwd" >>
temp_dir == << "tmp" >>
documents_dir == << "home", "Documents" >>
allowed_dirs == {current_dir, temp_dir, documents_dir}

\* Path::starts_with: base is a prefix of the components of path, compared
\* as written; both must be absolute or both relative.
starts_with(path, base) ==
    /\ path.abs
    /\ Len(path.comps) >= Len(base)
    /\ SubSeq(path.comps, 1, Len(base)) = base

\* is_path_allowed
is_path_allowed(path) ==
    IF \E allowed \in allowed_dirs : starts_with(path, allowed) THEN TRUE
    ELSE IF ~path.abs THEN TRUE
    ELSE FALSE

\* fs.move: the value returned to the script, and whether fs::rename was
\* called; os_ok is whether the operating system carries the rename out.
fs_move(source, dest, os_ok) ==
    IF ~is_path_allowed(source) \/ ~is_path_allowed(dest)
    THEN [ret |-> FALSE, performed |-> FALSE]
    ELSE [ret |-> os_ok, performed |-> TRUE]

\* fs.delete: the same for fs::remove_file.
fs_delete(path, os_ok) ==
    IF ~is_path_allowed(path)
    THEN [ret |-> FALSE, performed |-> FALSE]
    ELSE [ret |-> os_ok, performed |-> TRUE]

CallFsMove ==
    /\ fcall.fn = None
    /\ \E source, dest \in ScriptPaths, os_ok \in BOOLEAN :
          LET r == fs_move(source, dest, os_ok)
          IN  fcall' = [fn |-> "fs.move", paths |-> << source, dest >>,
                        ret |-> r.ret, performed |-> r.performed]
    /\ UNCHANGED << engineVars, pluginVars, metricsVars, windowVars, wsVars, shutdownVars, watchVars >>

CallFsDelete ==
    /\ fcall.fn = None
    /\ \E path \in ScriptPaths, os_ok \in BOOLEAN :
          LET r == fs_delete(path, os_ok)
          IN  fcall' = [fn |-> "fs.delete", paths |-> << path >>,
                        ret |-> r.ret, performed |-> r.performed]
    /\ UNCHANGED << engineVars, pluginVars, metricsVars, windowVars, wsVars, shutdownVars, watchVars >>

\* ------------------------------------------------- Config::validate
\* Regex::new rejects "(" (an unclosed group), as glob::Pattern::new rejects
\* "[".
RegexValid(p) == p # "("

\* The registry roots Engine::create_plugin accepts.
RegistryRoots == {"HKLM", "HKCU", "HKU", "HKCC"}

\* SourceType: a file watcher with an optional glob, a window watcher with an
\* optional title regex, a registry monitor with its root.
SourceTypes ==
    { [type |-> "file_watcher", pattern |-> None],
      [type |-> "file_watcher", pattern |-> "["],
      [type |-> "window_watcher", title_pattern |-> None],
      [type |-> "window_watcher", title_pattern |-> "("],
      [type |-> "registry_monitor", root |-> "HKLM"],
      [type |-> "registry_monitor", root |-> "HKEY_LOCAL_MACHINE"] }

TypedSourceConfig ==
    [name : SourceNames, source_type : SourceTypes, enabled : {TRUE}]

\* The configurations validate is called with.
ValidatedConfigs ==
    [sources : SeqsUpTo(TypedSourceConfig, MaxSources),
     rules : SeqsUpTo({ FileRule("r", TRUE, None, "log"),
                        FileRule("r", TRUE, "[", "log"),
                        FileRule("", TRUE, None, "log") }, 1)]

\* Two calls of Config::validate(&self) in a row on one configuration; the
\* method takes the configuration by shared reference.
CallValidate ==
    /\ fcall.fn = None
    /\ \E c \in ValidatedConfigs :
          fcall' = [fn |-> "Config::validate", config |-> c,
                    ret |-> validate(c), after |-> c,
                    again |-> validate(c)]
    /\ UNCHANGED << engineVars, pluginVars, metricsVars, windowVars, wsVars, shutdownVars, watchVars >>

\* ----------------------------------------------------------- file watcher
\* The patterns a file watcher is built with: none, a glob, or "[", which
\* glob::Pattern::new rejects.
WatcherPatterns == Options(Patterns \cup {<< "[" >>})

\* glob::Pattern::new succeeds.
Pattern_new_ok(pattern) == \A i \in 1..Len(pattern) : pattern[i] # "["

\* notify::EventKind
NotifyKinds == {"Create", "Modify", "Remove", "Access", "Other"}

\* FileWatcherPlugin::should_emit_event
should_emit_event(pattern, path) ==
    IF pattern # Nothing
    THEN IF file_name_str(path) # Nothing
         THEN IF Pattern_new_ok(pattern[1])
              THEN GlobMatches(pattern[1], file_name_str(path)[1])
              ELSE TRUE
         ELSE FALSE
    ELSE TRUE

\* Path::to_string_lossy: the text of the path, U+FFFD ("#") in the place of
\* a final component that is not valid UTF-8.
to_string_lossy(path) ==
    IF path.name = Nothing THEN << "/" >>
    ELSE IF path.utf8 THEN << "/" >> \o path.name[1]
    ELSE << "/", "#" >>

\* The closure FileWatcherPlugin::start hands to RecommendedWatcher::new,
\* for one path of a notification: the events it sends.
watcher_callback_path(pattern, kind, path) ==
    IF /\ pattern # Nothing
       /\ file_name_str(path) # Nothing
       /\ Pattern_new_ok(pattern[1])
       /\ ~GlobMatches(pattern[1], file_name_str(path)[1])
    THEN << >>
    ELSE IF kind \notin {"Create", "Modify", "Remove"} THEN << >>
    ELSE << [variant |-> CASE kind = "Create" -> "FileCreated"
                           [] kind = "Modify" -> "FileModified"
                           [] kind = "Remove" -> "FileDeleted",
             path |-> path,
             watcher_path |-> to_string_lossy(path)] >>

\* One notification with one path delivered to the closure.
CallWatcherCallback ==
    /\ fcall.fn = None
    /\ \E pattern \in WatcherPatterns, kind \in NotifyKinds, path \in Paths :
          fcall' = [fn |-> "watcher callback", pattern |-> pattern,
                    kind |-> kind, path |-> path,
                    sent |-> watcher_callback_path(pattern, kind, path)]
    /\ UNCHANGED << engineVars, pluginVars, metricsVars, windowVars, wsVars, shutdownVars, watchVars >>

\* -------------------------------------------------------- process monitor
\* The filters a process monitor is built with (with_name_filter) and the
\* image names of the processes the trace reports.
NameFilters == Options({<< "a" >>, << "A", "b" >>})
ImageNames == WindowTexts

\* The kernel-trace records the forwarding task turns into events.
EtwEvents == [type : {"ProcessStart", "ProcessStop"}, image_name : ImageNames]

\* The forwarding task of ProcessMonitorPlugin::start for one record: the
\* event it hands to emitter.try_send. filter_name only travels into the
\* callback context as pid_filter, which nothing reads.
process_forward(filter_name, etw_event) ==
    << [kind |-> IF etw_event.type = "ProcessStart" THEN "ProcessStarted"
                 ELSE "ProcessStopped",
        name |-> etw_event.image_name,
        process_name |-> etw_event.image_name] >>

\* One trace record passing through a started process monitor.
CallProcessForward ==
    /\ fcall.fn = None
    /\ \E filter_name \in NameFilters, etw_event \in EtwEvents :
          fcall' = [fn |-> "process forward", filter_name |-> filter_name,
                    etw_event |-> etw_event,
                    sent |-> process_forward(filter_name, etw_event)]
    /\ UNCHANGED << engineVars, pluginVars, metricsVars, windowVars, wsVars, shutdownVars, watchVars >>

\* ------------------------------------------------------- registry monitor

MaxKeyDepth == 3     \* components of a registry key path, the root included

\* Names of keys; "a" and "A" differ in case only, "ab" has "a" as a string
\* prefix.
KeyNames == {<< "a" >>, << "A" >>, << "a", "b" >>}

\* Key paths as lists of components, the first one being the root.
KeyPaths == SeqsUpTo(KeyNames, MaxKeyDepth) \ {<< >>}

\* The text of a key path: its components joined by "\".
RECURSIVE key_string(_)
key_string(comps) ==
    IF Len(comps) = 1 THEN comps[1]
    ELSE comps[1] \o << "\\" >> \o key_string(Tail(comps))

\* str::starts_with
str_starts_with(str, prefix) ==
    /\ Len(str) >= Len(prefix)
    /\ SubSeq(str, 1, Len(prefix)) = prefix

\* RegistryKeyConfig, root and path taken together as one key path.
RegistryKeyConfigs == [key : KeyPaths, watch_tree : BOOLEAN]

\* The lists of keys a registry monitor watches: none or one.
WatchedKeys == {<< >>} \cup {<< c >> : c \in RegistryKeyConfigs}

\* should_emit_fn of RegistryMonitorPlugin::start
should_emit_fn(keys, key_path) ==
    IF keys = << >> THEN TRUE
    ELSE LET key_lower == to_lowercase(key_path)
         IN  \E i \in 1..Len(keys) :
                LET filter_path == to_lowercase(key_string(keys[i].key))
                IN  IF keys[i].watch_tree
                    THEN \/ str_starts_with(key_lower, filter_path)
                         \/ str_starts_with(filter_path, key_lower)
                    ELSE \/ key_lower = filter_path
                         \/ str_starts_with(key_lower,
                                            filter_path \o << "\\" >>)

RegistryEtwTypes ==
    {"RegistryKeyCreated", "RegistryKeyDeleted", "RegistryValueSet",
     "RegistryValueDeleted", "RegistryKeyOpened"}

\* The forwarding task of RegistryMonitorPlugin::start for one trace record:
\* the events it hands to the emitter.
registry_forward(keys, type, key_path) ==
    LET should_emit == IF type = "RegistryKeyOpened" THEN FALSE
                       ELSE should_emit_fn(keys, key_path)
    IN  IF should_emit
        THEN << [kind |-> "RegistryChanged", key |-> key_path,
                 change_type |->
                     CASE type = "RegistryKeyCreated" -> "Created"
                       [] type = "RegistryValueSet" -> "Modified"
                       [] OTHER -> "Deleted"] >>
        ELSE << >>

\* One trace record passing through a started registry monitor.
CallRegistryForward ==
    /\ fcall.fn = None
    /\ \E keys \in WatchedKeys, type \in RegistryEtwTypes, at \in KeyPaths :
          fcall' = [fn |-> "registry forward", keys |-> keys, type |-> type,
                    at |-> at,
                    sent |-> registry_forward(keys, type, key_string(at))]
    /\ UNCHANGED << engineVars, pluginVars, metricsVars, windowVars, wsVars, shutdownVars, watchVars >>

\* ---------------------------------------------------- Metric series keys

MaxMetricName == 2

MaxLabelValue == 2

\* The strings over a set of characters, up to a length.
Strings(chars, n) == UNION { [1..k -> chars] : k \in 0..n }

\* Metric names and label values that can be passed to increment_counter,
\* set_gauge and record_histogram: any &str. Label values carry rule and
\* action names of the configuration.
MetricNames == Strings({"a", ":"}, MaxMetricName)

LabelValues == Strings({"a", ",", "="}, MaxLabelValue)

LabelKeys == { << "a" >>, << "b" >> }

\* HashMap<String, String>: a set of entries with distinct keys.
LabelMaps ==
    UNION { { { [k |-> k, v |-> f[k]] : k \in K } : f \in [K -> LabelValues] }
            : K \in SUBSET LabelKeys }

\* The orders in which iterating a HashMap can yield its entries.
IterOrders(m) ==
    { s \in [1..Cardinality(m) -> m] : { s[i] : i \in 1..Cardinality(m) } = m }

\* The byte of a character: String::cmp orders strings by their bytes.
byte(c) ==
    CASE c = "," -> 44
      [] c = ":" -> 58
      [] c = "=" -> 61
      [] c = "a" -> 97
      [] c = "b" -> 98
      [] c = "{" -> 123
      [] c = "}" -> 125

RECURSIVE str_lt(_, _)
str_lt(a, b) ==
    IF b = << >> THEN FALSE
    ELSE IF a = << >> THEN TRUE
    ELSE IF byte(a[1]) # byte(b[1]) THEN byte(a[1]) < byte(b[1])
    ELSE str_lt(Tail(a), Tail(b))

RECURSIVE insert_sorted(_, _)
insert_sorted(sorted, x) ==
    IF sorted = << >> THEN << x >>
    ELSE IF str_lt(x, sorted[1]) THEN << x >> \o sorted
    ELSE << sorted[1] >> \o insert_sorted(Tail(sorted), x)

\* Vec<String>::sort.
RECURSIVE sort_strings(_)
sort_strings(v) ==
    IF v = << >> THEN << >>
    ELSE insert_sorted(sort_strings(Tail(v)), v[1])

\* [String]::join.
RECURSIVE str_join(_, _)
str_join(parts, sep) ==
    IF parts = << >> THEN << >>
    ELSE IF Len(parts) = 1 THEN parts[1]
    ELSE parts[1] \o sep \o str_join(Tail(parts), sep)

\* MetricsCollector::build_key, the label map given as the order in which
\* labels.iter() yields its entries.
build_key(name, labels_iter) ==
    IF labels_iter = << >> THEN name
    ELSE LET label_parts ==
                 [i \in 1..Len(labels_iter) |->
                    labels_iter[i].k \o << "=" >> \o labels_iter[i].v]
         IN  name \o << ":", "{" >>
                  \o str_join(sort_strings(label_parts), << "," >>)
                  \o << "}" >>

\* str::find of a character: the position of its first occurrence counted
\* from one, or zero.
str_find(s, c) ==
    IF \E i \in 1..Len(s) : s[i] = c
    THEN CHOOSE i \in 1..Len(s) : s[i] = c /\ \A j \in 1..(i - 1) : s[j] # c
    ELSE 0

\* str::split on a character; an empty string has one empty part.
RECURSIVE str_split(_, _)
str_split(s, c) ==
    LET pos == str_find(s, c)
    IN  IF pos = 0 THEN << s >>
        ELSE << SubSeq(s, 1, pos - 1) >>
                 \o str_split(SubSeq(s, pos + 1, Len(s)), c)

\* HashMap::insert.
map_insert(m, k, v) == { e \in m : e.k # k } \cup { [k |-> k, v |-> v] }

\* The loop of parse_key over the parts of labels_str.
RECURSIVE parse_parts(_, _)
parse_parts(parts, labels) ==
    IF parts = << >> THEN labels
    ELSE LET part == parts[1]
             eq_pos == str_find(part, "=")
         IN  parse_parts(Tail(parts),
                 IF eq_pos = 0 THEN labels
                 ELSE map_insert(labels, SubSeq(part, 1, eq_pos - 1),
                                 SubSeq(part, eq_pos + 1, Len(part))))

\* MetricsCollector::parse_key: the pair it returns, or nothing when
\* &key[pos + 2..key.len() - 1] panics, the range starting after its end.
parse_key(key) ==
    LET pos == str_find(key, ":")
    IN  IF pos = 0 THEN << [name |-> key, labels |-> {}] >>
        ELSE IF pos + 1 > Len(key) - 1 THEN << >>
        ELSE << [name |-> SubSeq(key, 1, pos - 1),
                 labels |-> parse_parts(
                     str_split(SubSeq(key, pos + 2, Len(key) - 1), ","), {})] >>

\* A series is recorded under build_key and get_prometheus_format reads
\* its name and labels back with parse_key.
CallBuildKey ==
    /\ fcall.fn = None
    /\ \E name \in MetricNames, labels \in LabelMaps :
         \E it \in IterOrders(labels) :
            fcall' = [fn |-> "metric key", name |-> name, labels |-> labels,
                      key |-> build_key(name, it),
                      parsed |-> parse_key(build_key(name, it))]
    /\ UNCHANGED << engineVars, pluginVars, metricsVars, windowVars, wsVars, shutdownVars, watchVars >>

LibInit ==
    /\ EngineNew(create_demo_config)
    /\ PluginNew("file", FALSE)
    /\ LibNew
    /\ MetricsNew
    /\ WindowNew
    /\ WsNew
    /\ ShutdownNew
    /\ WatchNew

LibNext ==
    \/ CallEventKindMatcher
    \/ CallTriggerMatcher
    \/ CallFilePatternMatcher
    \/ CallWindowMatcher
    \/ CallCompositeMatcher
    \/ CallCompositeAction
    \/ CallScriptAction
    \/ LuaNew
    \/ setup_sandbox_step
    \/ setup_sandbox_fails
    \/ load_script
    \/ CallFsMove
    \/ CallFsDelete
    \/ CallValidate
    \/ CallWatcherCallback
    \/ CallProcessForward
    \/ CallRegistryForward
    \/ CallBuildKey

LibSpec == LibInit /\ [][LibNext]_vars

\* ---------------------------------------------------------------------------
\* Metrics collector: increment_counter step by step on each thread, the
\* other calls, the clock and the cleanup task.

\* The times at which the collector is called or its cleanup task runs:
\* when the collector is built, one regular retention period later and one
\* error retention period later.
ClockTimes == {0, DEFAULT_RETENTION_SECONDS, ERROR_RETENTION_SECONDS}

\* increment_counter, `if let Some(counter) = self.counters.get(&key)`: with
\* the entry present the fetch_add is done under the map's guard; with it
\* absent the guard is gone before the else branch runs.
increment_counter_get(t, key, value) ==
    /\ m_pc[t].pc = "idle"
    /\ m_calls < MaxMetricCalls
    /\ m_calls' = m_calls + 1
    /\ IF counters[key].present
       THEN /\ counters' = [counters EXCEPT ![key].v = @ + value]
            /\ m_pc' = [m_pc EXCEPT ![t] = [pc |-> "sample", key |-> key,
                                            value |-> value]]
       ELSE /\ UNCHANGED counters
            /\ m_pc' = [m_pc EXCEPT ![t] = [pc |-> "insert", key |-> key,
                                            value |-> value]]
    /\ UNCHANGED << counter_samples, gauges, gauge_samples, histograms, now,
                    cleanup, seen, added, evicted >>
    /\ UNCHANGED << engineVars, pluginVars, libVars, windowVars, wsVars, shutdownVars, watchVars >>

\* increment_counter, the else branch:
\* self.counters.insert(key, AtomicU64::new(value)).
increment_counter_insert(t) ==
    /\ m_pc[t].pc = "insert"
    /\ counters' = [counters EXCEPT ![m_pc[t].key] = Present(m_pc[t].value)]
    /\ m_pc' = [m_pc EXCEPT ![t].pc = "sample"]
    /\ UNCHANGED << counter_samples, gauges, gauge_samples, histograms, now,
                    cleanup, m_calls, seen, added, evicted >>
    /\ UNCHANGED << engineVars, pluginVars, libVars, windowVars, wsVars, shutdownVars, watchVars >>

\* increment_counter, the sample: counter_samples.entry(key).push((now, value));
\* the call returns.
increment_counter_sample(t) ==
    /\ m_pc[t].pc = "sample"
    /\ counter_samples' =
          [counter_samples EXCEPT ![m_pc[t].key] =
              Append(@, [ts |-> now, value |-> m_pc[t].value])]
    /\ added' = [added EXCEPT ![m_pc[t].key] = @ + m_pc[t].value]
    /\ m_pc' = [m_pc EXCEPT ![t] = [pc |-> "idle", key |-> None, value |-> 0]]
    /\ UNCHANGED << counters, gauges, gauge_samples, histograms, now, cleanup,
                    m_calls, seen, evicted >>
    /\ UNCHANGED << engineVars, pluginVars, libVars, windowVars, wsVars, shutdownVars, watchVars >>

\* get_counter: the value of the counter, None for an absent key.
get_counter(key) ==
    /\ counters[key].present
    /\ seen' = [seen EXCEPT ![key] = counters[key].v]
    /\ UNCHANGED << counters, counter_samples, gauges, gauge_samples,
                    histograms, m_pc, now, cleanup, m_calls, added, evicted >>
    /\ UNCHANGED << engineVars, pluginVars, libVars, windowVars, wsVars, shutdownVars, watchVars >>

\* set_gauge
set_gauge(key, value) ==
    /\ m_calls < MaxMetricCalls
    /\ m_calls' = m_calls + 1
    /\ gauges' = [gauges EXCEPT ![key] = Present(value)]
    /\ gauge_samples' = [gauge_samples EXCEPT ![key] =
                            Append(@, [ts |-> now, value |-> value])]
    /\ UNCHANGED << counters, counter_samples, histograms, m_pc, now, cleanup,
                    seen, added, evicted >>
    /\ UNCHANGED << engineVars, pluginVars, libVars, windowVars, wsVars, shutdownVars, watchVars >>

\* record_histogram
record_histogram(key, value) ==
    /\ m_calls < MaxMetricCalls
    /\ m_calls' = m_calls + 1
    /\ histograms' = [histograms EXCEPT ![key] =
                         Append(@, [ts |-> now, value |-> value])]
    /\ UNCHANGED << counters, counter_samples, gauges, gauge_samples, m_pc,
                    now, cleanup, seen, added, evicted >>
    /\ UNCHANGED << engineVars, pluginVars, libVars, windowVars, wsVars, shutdownVars, watchVars >>

\* Time passes.
advance_time ==
    /\ \E t \in ClockTimes :
          /\ t > now
          /\ now' = t
    /\ UNCHANGED << counters, counter_samples, gauges, gauge_samples,
                    histograms, m_pc, cleanup, m_calls, seen, added,
                    evicted >>
    /\ UNCHANGED << engineVars, pluginVars, libVars, windowVars, wsVars, shutdownVars, watchVars >>

\* start_cleanup_task: the task is spawned with clones of the three sample
\* maps (DashMap::clone copies the entries).
start_cleanup_task ==
    /\ ~cleanup.started
    /\ cleanup' = [started |-> TRUE, counters |-> counter_samples,
                   gauges |-> gauge_samples, histograms |-> histograms]
    /\ UNCHANGED << counters, counter_samples, gauges, gauge_samples,
                    histograms, m_pc, now, m_calls, seen, added, evicted >>
    /\ UNCHANGED << engineVars, pluginVars, libVars, windowVars, wsVars, shutdownVars, watchVars >>

\* The cutoff the cleanup task applies to the samples of a key of one of its
\* maps: error_cutoff for the histograms, cutoff for counters and gauges.
cleanup_cutoffs(map, key) ==
    IF map = "histograms" THEN now - ERROR_RETENTION_SECONDS
    ELSE now - DEFAULT_RETENTION_SECONDS

\* What one pass of the cleanup loop removes from a map of the task.
cleanup_removed(map, samples) ==
    UNION {{[key |-> k, ts |-> samples[k][i].ts, at |-> now] :
               i \in {j \in 1..Len(samples[k]) :
                         ~(samples[k][j].ts > cleanup_cutoffs(map, k))}} :
           k \in DOMAIN samples}

\* What it keeps.
cleanup_retained(map, samples) ==
    [k \in DOMAIN samples |->
        SelectSeq(samples[k], LAMBDA x : x.ts > cleanup_cutoffs(map, k))]

\* The cleanup task, one pass of its loop after interval.tick().
cleanup_tick ==
    /\ cleanup.started
    /\ cleanup' =
          [cleanup EXCEPT
              !.counters = cleanup_retained("counters", @),
              !.gauges = cleanup_retained("gauges", @),
              !.histograms = cleanup_retained("histograms", @)]
    /\ evicted' = evicted \cup cleanup_removed("counters", cleanup.counters)
                          \cup cleanup_removed("gauges", cleanup.gauges)
                          \cup cleanup_removed("histograms",
                                               cleanup.histograms)
    /\ UNCHANGED << counters, counter_samples, gauges, gauge_samples,
                    histograms, m_pc, now, m_calls, seen, added >>
    /\ UNCHANGED << engineVars, pluginVars, libVars, windowVars, wsVars, shutdownVars, watchVars >>

MetricsInit ==
    /\ EngineNew(create_demo_config)
    /\ PluginNew("file", FALSE)
    /\ LibNew
    /\ MetricsNew
    /\ WindowNew
    /\ WsNew
    /\ ShutdownNew
    /\ WatchNew

\* Threads calling increment_counter and get_counter concurrently, with the
\* cleanup task running among them.
MetricsNext ==
    \/ \E t \in Threads, key \in CounterKeys, value \in 1..2 :
          increment_counter_get(t, key, value)
    \/ \E t \in Threads : increment_counter_insert(t)
    \/ \E t \in Threads : increment_counter_sample(t)
    \/ \E key \in CounterKeys : get_counter(key)
    \/ start_cleanup_task
    \/ cleanup_tick

MetricsSpec == MetricsInit /\ [][MetricsNext]_vars

\* One thread recording counters, gauges and histograms as time passes, and
\* the cleanup task.
RetentionNext ==
    \/ \E key \in CounterKeys : increment_counter_get(1, key, 1)
    \/ increment_counter_insert(1)
    \/ increment_counter_sample(1)
    \/ \E key \in GaugeKeys : set_gauge(key, 1)
    \/ \E key \in HistogramKeys : record_histogram(key, 1)
    \/ advance_time
    \/ start_cleanup_task
    \/ cleanup_tick

RetentionSpec == MetricsInit /\ [][RetentionNext]_vars

\* --------------------------------------------------------- window observer

MaxWinEvents == 3    \* OS window notifications in one behaviour

\* Window handles; the handle 0 is no window.
Hwnds == {1, 2, 3}

\* The title and the process name of each window while it exists.
WindowTitle(hwnd) == IF hwnd = 2 THEN << "c" >> ELSE << "n" >>
WindowProcess(hwnd) == IF hwnd = 3 THEN << "c" >> ELSE << "n" >>

\* The filters a plugin is built with: none, or the regex "n".
FilterPatterns == Options({<< "n" >>})

\* Regex::is_match of a regex made of literal characters: the text holds
\* the pattern somewhere.
is_match(regex, text) == contains(text, regex)

\* get_window_info: the title and the process name of a window; for a window
\* that no longer exists GetWindowTextW returns no text and the process id
\* stays 0.
get_window_info(hwnd) ==
    IF hwnd \in os_windows
    THEN [title |-> WindowTitle(hwnd), process_name |-> WindowProcess(hwnd)]
    ELSE [title |-> << >>, process_name |-> << >>]

\* WindowEventPlugin::passes_filters, and the same test as the forwarding
\* task writes it out.
passes_filters(title, process_name) ==
    /\ (title_filter # Nothing => is_match(title_filter[1], title))
    /\ (process_filter # Nothing => is_match(process_filter[1], process_name))

\* win_event_callback for EVENT_SYSTEM_FOREGROUND: a window that exists came
\* to the foreground.
win_event_callback_focus(hwnd) ==
    /\ w_events < MaxWinEvents
    /\ hwnd \in os_windows
    /\ LET info == get_window_info(hwnd)
       IN  event_receiver' = Append(event_receiver,
               [type |-> "Focused", hwnd |-> hwnd, title |-> Some(info.title),
                process_name |-> info.process_name])
    /\ w_events' = w_events + 1
    /\ UNCHANGED << title_filter, process_filter, os_windows, previous_hwnd,
                    emitted, last_focus >>
    /\ UNCHANGED << engineVars, pluginVars, libVars, metricsVars, wsVars, shutdownVars, watchVars >>

\* win_event_callback for EVENT_OBJECT_CREATE: a window came into being.
win_event_callback_create(hwnd) ==
    /\ w_events < MaxWinEvents
    /\ hwnd \notin os_windows
    /\ os_windows' = os_windows \cup {hwnd}
    /\ event_receiver' = Append(event_receiver,
           [type |-> "Created", hwnd |-> hwnd,
            title |-> Some(WindowTitle(hwnd)),
            process_name |-> WindowProcess(hwnd)])
    /\ w_events' = w_events + 1
    /\ UNCHANGED << title_filter, process_filter, previous_hwnd, emitted,
                    last_focus >>
    /\ UNCHANGED << engineVars, pluginVars, libVars, metricsVars, wsVars, shutdownVars, watchVars >>

\* win_event_callback for EVENT_OBJECT_DESTROY: the window goes away; its title
\* is read while the window is going, so the text may or may not be there.
win_event_callback_destroy(hwnd) ==
    /\ w_events < MaxWinEvents
    /\ hwnd \in os_windows
    /\ os_windows' = os_windows \ {hwnd}
    /\ \E title \in {WindowTitle(hwnd), << >>} :
          event_receiver' = Append(event_receiver,
              [type |-> "Destroyed", hwnd |-> hwnd, title |-> Some(title),
               process_name |-> << >>])
    /\ w_events' = w_events + 1
    /\ UNCHANGED << title_filter, process_filter, previous_hwnd, emitted,
                    last_focus >>
    /\ UNCHANGED << engineVars, pluginVars, libVars, metricsVars, wsVars, shutdownVars, watchVars >>

WindowEventOut(kind, hwnd, title) ==
    [kind |-> kind, hwnd |-> hwnd, window_title |-> title]

\* The forwarding task, Focused branch: drop the notification if a filter
\* fails; otherwise WindowUnfocused for the window in the slot if it is
\* another window, then WindowFocused, then the slot takes the new window.
forward_focused ==
    /\ event_receiver # << >>
    /\ Head(event_receiver).type = "Focused"
    /\ LET ev == Head(event_receiver)
           passes == passes_filters(ev.title[1], ev.process_name)
           unfocus ==
               IF previous_hwnd # Nothing /\ previous_hwnd[1] # ev.hwnd
               THEN << WindowEventOut("WindowUnfocused", previous_hwnd[1],
                           Some(get_window_info(previous_hwnd[1]).title)) >>
               ELSE << >>
           out == IF passes
                  THEN unfocus \o
                       << WindowEventOut("WindowFocused", ev.hwnd, ev.title) >>
                  ELSE << >>
       IN  /\ emitted' = emitted \o out
           /\ previous_hwnd' = IF passes THEN Some(ev.hwnd) ELSE previous_hwnd
           /\ last_focus' = [hwnd |-> ev.hwnd, prev |-> previous_hwnd,
                             out |-> out]
    /\ event_receiver' = Tail(event_receiver)
    /\ UNCHANGED << title_filter, process_filter, os_windows, w_events >>
    /\ UNCHANGED << engineVars, pluginVars, libVars, metricsVars, wsVars, shutdownVars, watchVars >>

\* The forwarding task, Created branch: WindowCreated if both filters pass.
forward_created ==
    /\ event_receiver # << >>
    /\ Head(event_receiver).type = "Created"
    /\ LET ev == Head(event_receiver)
       IN  emitted' =
               IF passes_filters(ev.title[1], ev.process_name)
               THEN Append(emitted,
                        WindowEventOut("WindowCreated", ev.hwnd, ev.title))
               ELSE emitted
    /\ event_receiver' = Tail(event_receiver)
    /\ UNCHANGED << title_filter, process_filter, os_windows, previous_hwnd,
                    w_events, last_focus >>
    /\ UNCHANGED << engineVars, pluginVars, libVars, metricsVars, wsVars, shutdownVars, watchVars >>

\* The forwarding task, Destroyed branch: WindowDestroyed, always.
forward_destroyed ==
    /\ event_receiver # << >>
    /\ Head(event_receiver).type = "Destroyed"
    /\ LET ev == Head(event_receiver)
       IN  emitted' = Append(emitted,
               WindowEventOut("WindowDestroyed", ev.hwnd, ev.title))
    /\ event_receiver' = Tail(event_receiver)
    /\ UNCHANGED << title_filter, process_filter, os_windows, previous_hwnd,
                    w_events, last_focus >>
    /\ UNCHANGED << engineVars, pluginVars, libVars, metricsVars, wsVars, shutdownVars, watchVars >>

\* A started window plugin with any combination of filters; every window but
\* the last exists.
WindowInit ==
    /\ EngineNew(create_demo_config)
    /\ PluginNew("file", FALSE)
    /\ LibNew
    /\ MetricsNew
    /\ WsNew
    /\ ShutdownNew
    /\ WatchNew
    /\ title_filter \in FilterPatterns
    /\ process_filter \in FilterPatterns
    /\ os_windows = Hwnds \ {3}
    /\ event_receiver = << >>
    /\ previous_hwnd = Nothing
    /\ emitted = << >>
    /\ w_events = 0
    /\ last_focus = [hwnd |-> 0, prev |-> Nothing, out |-> << >>]

WindowNext ==
    \/ \E hwnd \in Hwnds : win_event_callback_focus(hwnd)
    \/ \E hwnd \in Hwnds : win_event_callback_create(hwnd)
    \/ \E hwnd \in Hwnds : win_event_callback_destroy(hwnd)
    \/ forward_focused
    \/ forward_created
    \/ forward_destroyed

WindowSpec == WindowInit /\ [][WindowNext]_vars

\* ------------------------------------------------------ WebSocket server

Capacity == 2        \* broadcast::channel(1024), scaled down
MaxBroadcasts == 4   \* updates broadcast in one behaviour
MaxTicks == 1        \* periodic snapshots in one behaviour

Snapshot == 0        \* a Snapshot frame; updates are numbered from 1

\* The oldest update the channel still holds, given how many were sent.
oldest_retained(tail) == IF tail > Capacity THEN tail - Capacity + 1 ELSE 1

\* Variant of next_after_lag that continues from the newest update.
next_after_lag_newest(tail) == tail

\* Receiver::recv after the receiver lagged: the position it continues from.
next_after_lag(tail) == oldest_retained(tail)

\* MetricsCollector::broadcast: update_tx.send, which overwrites the oldest
\* update once the channel holds Capacity of them.
broadcast ==
    /\ tx_tail < MaxBroadcasts
    /\ tx_tail' = tx_tail + 1
    /\ UNCHANGED << rx_next, ws_pc, frames, subscribed_at, lost, ticks >>
    /\ UNCHANGED << engineVars, pluginVars, libVars, metricsVars, windowVars,
                    shutdownVars, watchVars >>

\* handle_socket: collector.subscribe(); the receiver starts after the
\* updates sent so far.
ws_subscribe ==
    /\ ws_pc = "none"
    /\ rx_next' = tx_tail + 1
    /\ subscribed_at' = tx_tail
    /\ ws_pc' = "snapshot"
    /\ UNCHANGED << tx_tail, frames, lost, ticks >>
    /\ UNCHANGED << engineVars, pluginVars, libVars, metricsVars, windowVars,
                    shutdownVars, watchVars >>

\* handle_socket: the initial snapshot; the result of the send is ignored.
ws_initial_snapshot ==
    /\ ws_pc = "snapshot"
    /\ frames' = Append(frames, Snapshot)
    /\ ws_pc' = "select"
    /\ UNCHANGED << tx_tail, rx_next, subscribed_at, lost, ticks >>
    /\ UNCHANGED << engineVars, pluginVars, libVars, metricsVars, windowVars,
                    shutdownVars, watchVars >>

\* select!, branch `Ok(update) = updates.recv()` with an update to read:
\* forward it, or leave the loop if the client is gone.
ws_forward_update ==
    /\ ws_pc = "select"
    /\ rx_next <= tx_tail
    /\ rx_next >= oldest_retained(tx_tail)
    /\ rx_next' = rx_next + 1
    /\ \E send_ok \in BOOLEAN :
          IF send_ok
          THEN frames' = Append(frames, rx_next) /\ ws_pc' = "select"
          ELSE frames' = frames /\ ws_pc' = "closed"
    /\ UNCHANGED << tx_tail, subscribed_at, lost, ticks >>
    /\ UNCHANGED << engineVars, pluginVars, libVars, metricsVars, windowVars,
                    shutdownVars, watchVars >>

\* select!, the same branch when the update at the receiver's position has
\* been overwritten: recv returns Err(Lagged), the receiver moves on to the
\* oldest update still held, and the branch is disabled until another
\* branch of this select! completes.
ws_recv_lagged ==
    /\ ws_pc = "select"
    /\ rx_next < oldest_retained(tx_tail)
    /\ rx_next' = next_after_lag(tx_tail)
    /\ lost' = lost \cup
          { [id |-> i, tail |-> tx_tail] :
                i \in rx_next..(next_after_lag(tx_tail) - 1) }
    /\ ws_pc' = "select_rest"
    /\ UNCHANGED << tx_tail, frames, subscribed_at, ticks >>
    /\ UNCHANGED << engineVars, pluginVars, libVars, metricsVars, windowVars,
                    shutdownVars, watchVars >>

\* select!, branch snapshot_interval.tick(): a periodic snapshot.
ws_tick ==
    /\ ws_pc \in {"select", "select_rest"}
    /\ ticks < MaxTicks
    /\ ticks' = ticks + 1
    /\ \E send_ok \in BOOLEAN :
          IF send_ok
          THEN frames' = Append(frames, Snapshot) /\ ws_pc' = "select"
          ELSE frames' = frames /\ ws_pc' = "closed"
    /\ UNCHANGED << tx_tail, rx_next, subscribed_at, lost >>
    /\ UNCHANGED << engineVars, pluginVars, libVars, metricsVars, windowVars,
                    shutdownVars, watchVars >>

\* select!, branch receiver.next(): a text or ping from the client starts the
\* loop over, a Close ends it.
ws_client_message ==
    /\ ws_pc \in {"select", "select_rest"}
    /\ \E close \in BOOLEAN :
          ws_pc' = IF close THEN "closed" ELSE "select"
    /\ UNCHANGED << tx_tail, rx_next, frames, subscribed_at, lost, ticks >>
    /\ UNCHANGED << engineVars, pluginVars, libVars, metricsVars, windowVars,
                    shutdownVars, watchVars >>

WsInit ==
    /\ EngineNew(create_demo_config)
    /\ PluginNew("file", FALSE)
    /\ LibNew
    /\ MetricsNew
    /\ WindowNew
    /\ WsNew
    /\ ShutdownNew
    /\ WatchNew

WsNext ==
    \/ broadcast
    \/ ws_subscribe
    \/ ws_initial_snapshot
    \/ ws_forward_update
    \/ ws_recv_lagged
    \/ ws_tick
    \/ ws_client_message

WsSpec == WsInit /\ [][WsNext]_vars

\* ------------------------------------------------------- Engine::shutdown

\* Engine::shutdown: stop() of every plugin, awaited in turn. self.plugins,
\* self.event_sender and the dispatch tasks are left as they are.
Shutdown ==
    /\ event_sender # NoBus
    /\ ~shutdown.done
    /\ shutdown' = [done |-> TRUE, dispatched |-> Len(deqLog),
                    executed |-> Len(execLog)]
    /\ UNCHANGED << engineVars, pluginVars, libVars, metricsVars, windowVars,
                    wsVars, watchVars >>

\* A plugin that has not been stopped hands an event to the bus.
EmitRunning(kind) == ~shutdown.done /\ Emit(kind)

ShutdownNext ==
    \/ Initialize
    \/ \E k \in EventKinds : EmitRunning(k)
    \/ \E t \in 1..(MaxReloads + 1) : DispatchRecv(t)
    \/ \E t \in 1..(MaxReloads + 1) : DispatchRule(t)
    \/ \E t \in 1..(MaxReloads + 1) : ChildExit(t)
    \/ Shutdown

\* The engine from construction to shutdown, the dispatch task being polled
\* whenever it can take a step.
ShutdownSpec ==
    /\ Init /\ [][ShutdownNext]_vars
    /\ WF_vars(\E t \in 1..(MaxReloads + 1) : DispatchRecv(t))
    /\ WF_vars(\E t \in 1..(MaxReloads + 1) : DispatchRule(t))

\* ------------------------------------------------- watch_config and main

Min(a, b) == IF a < b THEN a ELSE b

\* The receiver main holds belongs to the channel of the newest watcher.
receiver_alive(i) == i = Len(watchers)

\* 250 ms pass.
watch_tick ==
    /\ watchers' =
         [i \in 1..Len(watchers) |->
            [watchers[i] EXCEPT
               !.remaining = IF @ > 0 THEN @ - 1 ELSE 0,
               !.last_reload = Min(@ + 1, DebounceTicks)]]
    /\ since_signal' = Min(since_signal + 1, DebounceTicks)
    /\ UNCHANGED << cfg_file, cfg_loaded, shutdown_flag, reload_signals,
                    main_loop, last_signal, fs_count >>
    /\ UNCHANGED << engineVars, pluginVars, libVars, metricsVars, windowVars,
                    wsVars, shutdownVars >>

\* The OS reports a change below the watched directory to every watcher
\* that is registered.
fs_notify(ev) ==
    /\ fs_count < MaxFsEvents
    /\ fs_count' = fs_count + 1
    /\ cfg_file' = IF ev.kind \in {"Modify", "Create"} /\ "toml" \in ev.paths
                   THEN cfg_file + 1 ELSE cfg_file
    /\ watchers' =
         [i \in 1..Len(watchers) |->
            IF watchers[i].pc = "stopped" THEN watchers[i]
            ELSE [watchers[i] EXCEPT !.notify_rx = Append(@, ev)]]
    /\ UNCHANGED << cfg_loaded, shutdown_flag, reload_signals, main_loop,
                    since_signal, last_signal >>
    /\ UNCHANGED << engineVars, pluginVars, libVars, metricsVars, windowVars,
                    wsVars, shutdownVars >>

\* while !shutdown_flag.load(): leave the loop, or start timeout(250 ms,
\* notify_rx.recv()).
watcher_check(i) ==
    /\ watchers[i].pc = "top"
    /\ watchers' =
         [watchers EXCEPT
            ![i] = IF shutdown_flag
                   THEN [@ EXCEPT !.pc = "stopped", !.notify_rx = << >>]
                   ELSE [@ EXCEPT !.pc = "waiting", !.remaining = PollTicks]]
    /\ UNCHANGED << cfg_file, cfg_loaded, shutdown_flag, reload_signals,
                    main_loop, since_signal, last_signal, fs_count >>
    /\ UNCHANGED << engineVars, pluginVars, libVars, metricsVars, windowVars,
                    wsVars, shutdownVars >>

\* Err(_) => continue: the timeout elapsed with nothing to receive.
watcher_timeout(i) ==
    /\ watchers[i].pc = "waiting"
    /\ watchers[i].remaining = 0
    /\ watchers[i].notify_rx = << >>
    /\ watchers' = [watchers EXCEPT ![i].pc = "top"]
    /\ UNCHANGED << cfg_file, cfg_loaded, shutdown_flag, reload_signals,
                    main_loop, since_signal, last_signal, fs_count >>
    /\ UNCHANGED << engineVars, pluginVars, libVars, metricsVars, windowVars,
                    wsVars, shutdownVars >>

\* The Ok(Some(event)) arm without the debounce test.
signals_reload_no_debounce(w, ev) ==
    /\ ev.kind \in {"Modify", "Create"}
    /\ "toml" \in ev.paths

\* Whether the Ok(Some(event)) arm reaches tx.send: a Modify or Create,
\* outside the debounce window, naming a .toml path.
signals_reload(w, ev) ==
    /\ ev.kind \in {"Modify", "Create"}
    /\ ~(w.last_reload < DebounceTicks)
    /\ "toml" \in ev.paths

\* Ok(Some(event)): the arm as a whole. tx.send fails, unnoticed, when the
\* receiver of this watcher's channel has been dropped.
watcher_recv(i) ==
    /\ watchers[i].pc = "waiting"
    /\ watchers[i].notify_rx # << >>
    /\ LET w == watchers[i]
           ev == Head(w.notify_rx)
           send == signals_reload(w, ev)
       IN  /\ watchers' =
                [watchers EXCEPT
                   ![i] = [@ EXCEPT !.pc = "top",
                                    !.notify_rx = Tail(@),
                                    !.last_reload = IF send THEN 0 ELSE @]]
           /\ IF send /\ receiver_alive(i)
              THEN /\ reload_signals' = reload_signals + 1
                   /\ last_signal' = << [watcher |-> i, event |-> ev,
                                         gap |-> since_signal] >>
                   /\ since_signal' = 0
              ELSE UNCHANGED << reload_signals, last_signal, since_signal >>
    /\ UNCHANGED << cfg_file, cfg_loaded, shutdown_flag, main_loop, fs_count >>
    /\ UNCHANGED << engineVars, pluginVars, libVars, metricsVars, windowVars,
                    wsVars, shutdownVars >>

\* main: config_reload_rx.recv() returns and the flag is raised.
main_reload_begin ==
    /\ main_loop = "select"
    /\ reload_signals > 0
    /\ reload_signals' = reload_signals - 1
    /\ shutdown_flag' = TRUE
    /\ main_loop' = "reloading"
    /\ UNCHANGED << cfg_file, cfg_loaded, watchers, since_signal, last_signal,
                    fs_count >>
    /\ UNCHANGED << engineVars, pluginVars, libVars, metricsVars, windowVars,
                    wsVars, shutdownVars >>

\* main: the configuration on disk is loaded and the engine reloaded, the
\* flag is cleared, watch_config spawns a watcher with a new channel and
\* the old receiver is dropped with whatever it still holds.
main_reload_end ==
    /\ main_loop = "reloading"
    /\ cfg_loaded' = cfg_file
    /\ shutdown_flag' = FALSE
    /\ watchers' = Append(watchers, new_watcher)
    /\ reload_signals' = 0
    /\ main_loop' = "select"
    /\ UNCHANGED << cfg_file, since_signal, last_signal, fs_count >>
    /\ UNCHANGED << engineVars, pluginVars, libVars, metricsVars, windowVars,
                    wsVars, shutdownVars >>

WatchInit ==
    /\ EngineNew(create_demo_config)
    /\ PluginNew("file", FALSE)
    /\ LibNew
    /\ MetricsNew
    /\ WindowNew
    /\ WsNew
    /\ ShutdownNew
    /\ WatchNew

WatchNext ==
    \/ watch_tick
    \/ \E ev \in FsEvents : fs_notify(ev)
    \/ \E i \in 1..Len(watchers) : watcher_check(i)
    \/ \E i \in 1..Len(watchers) : watcher_timeout(i)
    \/ \E i \in 1..Len(watchers) : watcher_recv(i)
    \/ main_reload_begin
    \/ main_reload_end

WatchSpec == WatchInit /\ [][WatchNext]_vars

\* Time passes, and main and every watcher task are polled whenever they
\* can take a step.
WatchLiveSpec ==
    /\ WatchSpec
    /\ WF_vars(watch_tick)
    /\ WF_vars(main_reload_begin)
    /\ WF_vars(main_reload_end)
    /\ \A i \in 1..(MaxFsEvents + 1) :
         /\ WF_vars(i <= Len(watchers) /\ watcher_check(i))
         /\ WF_vars(i <= Len(watchers) /\ watcher_timeout(i))
         /\ WF_vars(i <= Len(watchers) /\ watcher_recv(i))

Next ==
    \/ Initialize
    \/ \E c \in ReloadConfigs : Reload(c)
    \/ \E k \in EventKinds : Emit(k)
    \/ \E t \in 1..(MaxReloads + 1) : DispatchRecv(t)
    \/ \E t \in 1..(MaxReloads + 1) : DispatchRule(t)
    \/ \E t \in 1..(MaxReloads + 1) : ChildExit(t)
    \/ \E t \in 1..(MaxReloads + 1) : DispatchClosed(t)

Spec == Init /\ [][Next]_vars

\* The supervisor alone: initialize, reload with any configuration, and the
\* tasks reload spawns.
CtlNext ==
    \/ Initialize
    \/ \E c \in CtlConfigs : Reload(c)
    \/ \E t \in 1..(MaxReloads + 1) : DispatchClosed(t)

CtlSpec == CtlInit /\ [][CtlNext]_vars

\* The same behaviours with the scheduling the tokio runtime gives a spawned
\* task: a dispatch task that can take a step is eventually polled.
LiveSpec ==
    /\ Init /\ [][Next]_vars
    /\ WF_vars(\E t \in 1..(MaxReloads + 1) : DispatchRecv(t))
    /\ WF_vars(\E t \in 1..(MaxReloads + 1) : DispatchRule(t))

\* ===================================================================== claims

\* C1: after a successful reload, every event emitted by a restarted plugin is
\* dequeued by a dispatch task holding the new epoch's rules and executes only
\* actions of the new epoch.
C1_EventsSeeNewEpoch ==
    /\ \A i \in 1..Len(deqLog) :
          tasks[deqLog[i].task].epoch = deqLog[i].ev.epoch
    /\ \A i \in 1..Len(execLog) :
          /\ execLog[i].rule.epoch = execLog[i].ev.epoch
          /\ execLog[i].result.ok => execLog[i].result.action.epoch = execLog[i].ev.epoch

\* The rules of the list rs (ordinals below upto) that are enabled and whose
\* matcher returns true for ev, in list order, as <<event id, ordinal>>.
MatchPairs(rs, ev, upto) ==
    LET hit == SelectSeq([k \in 1..upto |-> k - 1],
                   LAMBDA i : rs[i + 1].enabled
                              /\ matcher_matches(rs[i + 1].matcher, ev.kind))
    IN [k \in 1..Len(hit) |-> << ev.id, hit[k] >>]

RECURSIVE ExpectedPairs(_, _, _)
ExpectedPairs(t, D, n) ==
    IF n = 0 THEN << >>
    ELSE ExpectedPairs(t, D, n - 1) \o
         MatchPairs(tasks[t].rules, D[n].ev,
                    IF n = Len(D) /\ tasks[t].pc \in {"rules", "wait"}
                    THEN tasks[t].idx ELSE Len(tasks[t].rules))

DeqOf(t) == SelectSeq(deqLog, LAMBDA d : d.task = t)

ExecPairs(t) ==
    LET X == SelectSeq(execLog, LAMBDA x : x.task = t)
    IN [k \in 1..Len(X) |-> << X[k].ev.id, X[k].idx >>]

C3_ActionOfSameRule ==
    \A i \in 1..Len(execLog) :
        /\ execLog[i].result.ok
        /\ execLog[i].result.action.cfg_index = execLog[i].rule.cfg_index

DeqCount(id) == Cardinality({ i \in 1..Len(deqLog) : deqLog[i].ev.id = id })

\* C4: an event whose try_send succeeded is dequeued by the dispatch task
\* eventually, and no event is dequeued twice or without having been sent.
C4_DeliveredExactlyOnce ==
    /\ [](\A id \in 1..MaxEvents :
             DeqCount(id) <= 1 /\ (DeqCount(id) = 1 => id \in sent))
    /\ \A id \in 1..MaxEvents : (id \in sent) ~> (DeqCount(id) = 1)

\* Two events were accepted by the bus and both have been dequeued.
C4_Witness ==
    /\ Cardinality(sent) >= 2
    /\ \A id \in sent : DeqCount(id) = 1

\* C5: events_dropped_total counts the events dropped on a full bus.
C5_DropsCounted == events_dropped_total = dropped

\* The number of config rules reload can build: enabled, with a valid glob.
BuildableRules(c) ==
    { j \in 1..Len(c.rules) :
         /\ c.rules[j].enabled
         /\ ~(c.rules[j].trigger.type = "file_created"
              /\ c.rules[j].trigger.pattern = "[") }

\* C6: after a successful reload get_status reports the started sources and
\* the built enabled rules of the new configuration, nothing else.
C6_StatusAfterReload ==
    last_reload.ok =>
        get_status = [active_plugins |-> last_reload.started,
                      active_rules |-> Cardinality(BuildableRules(config))]

\* A reload succeeded whose configuration has a source that is not active and
\* a rule that is not active, next to active ones.
C6_Witness ==
    /\ last_reload.ok
    /\ reloads >= 1
    /\ 0 < Len(plugins) /\ Len(plugins) < Len(config.sources)
    /\ 0 < Len(rules) /\ Len(rules) < Len(config.rules)

\* C7: a reload whose configuration fails validation returns an error and
\* leaves the configuration, the plugins, the rules, the action registry, the
\* bus, the dispatch tasks and the status counts as they were.
C7_InvalidReloadKeepsState ==
    [][(reloads' = reloads + 1 /\ ~last_reload'.ok) =>
          /\ config' = config
          /\ plugins' = plugins
          /\ rules' = rules
          /\ action_executor' = action_executor
          /\ event_sender' = event_sender
          /\ buses' = buses
          /\ tasks' = tasks
          /\ get_status' = get_status]_vars

\* A reload has failed while plugins were running and rules were active.
C7_Witness ==
    /\ reloads >= 1
    /\ ~last_reload.ok
    /\ Len(plugins) > 0
    /\ Len(rules) > 0

\* C8: no plugin hands an event to the emitter while its is_running flag is
\* false, whatever the interleaving of stop, the OS thread and the forwarding
\* task.
C8_NoEmitWhileStopped ==
    \A i \in 1..Len(p_emits) : p_emits[i].running

\* C9: a start while the plugin is running returns Ok and changes nothing; a
\* stop of a plugin that was never started returns Ok and leaves is_running
\* false; between calls, is_running is true exactly when a start has succeeded
\* and no stop was called since.
C9_StartStopIdempotent ==
    /\ (main_pc = "idle" => is_running = expect_running)
    /\ [][ /\ (main_pc' = "idle" => is_running' = expect_running')
           /\ (expect_running /\ main_pc = "idle" /\ p_calls' = p_calls + 1
                   /\ p_ret'.op = "start")
                => /\ p_ret'.res = "Ok"
                   /\ UNCHANGED << is_running, p_handle, p_sender, th, fw,
                                   chan, gen, p_emits >>
           /\ (gen = 0 /\ p_calls' = p_calls + 1 /\ p_ret'.op = "stop")
                => p_ret'.res = "Ok" /\ ~is_running'
         ]_vars

C9_Witness ==
    /\ p_calls = MaxCalls
    /\ gen = 1
    /\ p_ret.op = "start"
    /\ p_ret.res = "Ok"
    /\ p_ret.thread = None
    /\ is_running

\* C10: a start that returned Ok has a live dedicated thread, and a plugin
\* whose dedicated thread failed its set-up is not running once start has
\* returned.
C10_StartOkMeansThreadAlive ==
    /\ (p_ret.op = "start" /\ p_ret.res = "Ok" /\ p_ret.thread # None)
          => p_ret.thread \in {"check", "getmsg", "running"}
    /\ \A g \in Gens :
          (th[g] = "failed" /\ p_handle = g /\ main_pc = "idle") => ~is_running

\* The plugin list initialize_plugins is expected to leave: the enabled
\* sources of c, in order, whose start did not fail.
StartedNames(c, failed) ==
    LET kept == SelectSeq(IndexSeq(Len(c.sources)),
                   LAMBDA j : c.sources[j].enabled /\ j \notin failed)
    IN [k \in 1..Len(kept) |-> c.sources[kept[k]].name]

\* C11: an initialize or a reload in which the start of some source failed
\* still returns Ok, leaves exactly the other enabled sources in the plugin
\* list, and loads every enabled rule that can be built together with its
\* action.
C11_SourceErrorsDoNotFailEngine ==
    (last_init.op # None /\ (last_init.op = "reload" => last_reload.ok))
      => /\ last_init.res = "Ok"
         /\ plugins = StartedNames(config, last_init.failed)
         /\ Len(rules) = Cardinality(BuildableRules(config))
         /\ \A i \in 1..Len(rules) :
               \E k \in DOMAIN action_executor :
                  /\ action_executor[k].epoch = rules[i].epoch
                  /\ action_executor[k].cfg_index = rules[i].cfg_index

C11_Witness ==
    /\ last_init.res = "Ok"
    /\ 1 \in last_init.failed
    /\ Len(plugins) >= 1
    /\ Len(rules) >= 1

\* The executions task t made for the event id, as ordinals in its rule list.
ExecIdxOf(t, id) ==
    LET X == SelectSeq(execLog, LAMBDA x : x.task = t /\ x.ev.id = id)
    IN [k \in 1..Len(X) |-> X[k].idx]

\* Task t has left the rule loop of the event id.
LoopDone(t, id) ==
    \/ tasks[t].pc = "recv"
    \/ DeqOf(t)[Len(DeqOf(t))].ev.id # id

\* C12: an action that returned an ActionError does not end the dispatch
\* task: the task is still alive, and once it has left the rule loop of that
\* event every enabled matching rule of its list has been executed for it,
\* those after the failed one included.
C12_ActionErrorKeepsDispatching ==
    \A i \in 1..Len(execLog) :
        execLog[i].outcome \in ActionErrors =>
            LET t == execLog[i].task
                e == execLog[i].ev
                all == MatchPairs(tasks[t].rules, e, Len(tasks[t].rules))
            IN /\ tasks[t].pc # "stopped"
               /\ LoopDone(t, e.id) =>
                     ExecIdxOf(t, e.id) = [k \in 1..Len(all) |-> all[k][2]]

\* The first rule's action failed for an event, the second rule's action ran
\* for the same event, and a later event was dequeued and dispatched.
C12_Witness ==
    \E i, j, k \in 1..Len(execLog) :
        /\ i < j /\ j < k
        /\ execLog[i].outcome = "Execution"
        /\ execLog[j].ev.id = execLog[i].ev.id
        /\ execLog[j].idx > execLog[i].idx
        /\ execLog[k].ev.id # execLog[i].ev.id
        /\ execLog[k].task = execLog[i].task

\* C13: an EventKindMatcher built for a variant matches exactly the events of
\* that variant (of that variant and path, for the file variants), and so do
\* the matchers create_rule builds for the process, registry and timer
\* triggers.
C13_KindMatcherByDiscriminant ==
    fcall.fn \in {"EventKindMatcher::matches", "create_rule"} =>
        fcall.out = (/\ fcall.kind.variant = fcall.event.variant
                     /\ fcall.kind.variant \in FileVariants =>
                           fcall.kind.data = fcall.event.data)

\* A timer rule was applied to a TimerTick event and matched it.
C13_Witness ==
    /\ fcall.fn = "create_rule"
    /\ fcall.trigger = "timer"
    /\ fcall.event.variant = "TimerTick"
    /\ fcall.out

\* C14: a matcher built by FilePatternMatcher::created().with_file_pattern(g)
\* matches an event exactly when the event is a FileCreated whose path has a
\* final component that is valid UTF-8 and matches g; a path with no final
\* component, or with one that is not valid UTF-8, is not matched.
C14_FilePatternNeedsFileName ==
    (/\ fcall.fn = "FilePatternMatcher::matches"
     /\ fcall.self.event_type = "Created"
     /\ fcall.self.path_pattern = Nothing
     /\ fcall.self.file_pattern # Nothing) =>
        fcall.out = (/\ fcall.event.variant = "FileCreated"
                     /\ fcall.event.path.name # Nothing
                     /\ fcall.event.path.utf8
                     /\ GlobMatches(fcall.self.file_pattern[1],
                                    fcall.event.path.name[1]))

\* A created-file matcher with pattern "*b" was applied to a FileCreated
\* event whose file name ends in b, and matched.
C14_Witness ==
    /\ fcall.fn = "FilePatternMatcher::matches"
    /\ fcall.self.event_type = "Created"
    /\ fcall.self.path_pattern = Nothing
    /\ fcall.self.file_pattern = Some(<< "*", "b" >>)
    /\ fcall.event.variant = "FileCreated"
    /\ fcall.event.path = [name |-> Some(<< "a", "b" >>), utf8 |-> TRUE]
    /\ fcall.out

\* The window kind a WindowEventType stands for.
WindowVariantOf(event_type) == "Window" \o event_type

\* C15: a WindowMatcher matches an event exactly when the event's window
\* kind is the matcher's type, the title filter is unset or contained in the
\* title (both lower-cased), and the process filter is unset or contained in
\* the process name the event carries as metadata (both lower-cased); for
\* all four window kinds.
C15_WindowMatcherFilters ==
    fcall.fn = "WindowMatcher::matches" =>
        fcall.out =
            (/\ fcall.event.variant = WindowVariantOf(fcall.self.event_type)
             /\ \/ fcall.self.title_contains = Nothing
                \/ contains(to_lowercase(unwrap_or_default(fcall.event.title)),
                            to_lowercase(fcall.self.title_contains[1]))
             /\ \/ fcall.self.process_name = Nothing
                \/ contains(
                     to_lowercase(unwrap_or_default(fcall.event.process_name)),
                     to_lowercase(fcall.self.process_name[1])))

\* A Focused matcher with title filter "a" and process filter "A" matched a
\* WindowFocused event titled "bA" from process "ab".
C15_Witness ==
    /\ fcall.fn = "WindowMatcher::matches"
    /\ fcall.self = [event_type |-> "Focused",
                     title_contains |-> Some(<< "a" >>),
                     process_name |-> Some(<< "A" >>)]
    /\ fcall.event = [variant |-> "WindowFocused",
                      title |-> Some(<< "b", "A" >>),
                      process_name |-> Some(<< "a", "b" >>)]
    /\ fcall.out

\* The answers of the children of the composite of the current call.
ChildAnswer(i) ==
    FilePatternMatcher_matches(fcall.self.matchers[i], fcall.event)

\* The position of the first child whose answer is b, or the number of
\* children when no child answers b.
FirstAnswer(b) ==
    LET n == Len(fcall.self.matchers)
        hits == {i \in 1..n : ChildAnswer(i) = b}
    IN  IF hits = {} THEN n
        ELSE CHOOSE i \in hits : \A j \in hits : i <= j

\* C16: an And composite matches exactly when every child matches and an Or
\* composite exactly when some child matches (so an empty And matches and an
\* empty Or does not), and no child is asked after the first one that
\* answers false (And) or true (Or).
C16_CompositeShortCircuit ==
    fcall.fn = "CompositeMatcher::matches" =>
        LET n == Len(fcall.self.matchers)
        IN  IF fcall.self.operator = "And"
            THEN /\ fcall.out = \A i \in 1..n : ChildAnswer(i)
                 /\ fcall.evaluated = FirstAnswer(FALSE)
            ELSE /\ fcall.out = \E i \in 1..n : ChildAnswer(i)
                 /\ fcall.evaluated = FirstAnswer(TRUE)

\* An And composite of three children stopped at its second child, which
\* did not match.
C16_Witness ==
    /\ fcall.fn = "CompositeMatcher::matches"
    /\ fcall.self.operator = "And"
    /\ Len(fcall.self.matchers) = 3
    /\ ChildAnswer(1)
    /\ ~ChildAnswer(2)
    /\ fcall.evaluated = 2
    /\ ~fcall.out

\* The position of the first child of the composite action of the current
\* call that returns an error; 0 when no child does.
FirstFailure ==
    LET bad == {i \in 1..Len(fcall.self.actions) :
                   fcall.self.actions[i] \in ActionErrors}
    IN  IF bad = {} THEN 0 ELSE CHOOSE i \in bad : \A j \in bad : i <= j

\* The children 1..n, in list order.
InOrder(n) == [i \in 1..n |-> i]

\* The children executed when execution ends with the first failure.
UpToFirstFailure ==
    IF FirstFailure = 0 THEN InOrder(Len(fcall.self.actions))
    ELSE InOrder(FirstFailure)

\* C17: with on_error = Stop the children run in list order up to and
\* including the first one that fails, none runs after it, and the composite
\* returns that child's error.
C17_StopReturnsFirstError ==
    (fcall.fn = "CompositeAction::execute" /\ fcall.self.on_error = "Stop") =>
        /\ fcall.executed = UpToFirstFailure
        /\ FirstFailure # 0 =>
              /\ fcall.ret = "Err"
              /\ fcall.err = fcall.self.actions[FirstFailure]

\* A Stop composite whose second child of three failed: the third did not
\* run and the error came back.
C17_Witness ==
    /\ fcall.fn = "CompositeAction::execute"
    /\ fcall.self = [actions |-> << "Success", "Execution", "Success" >>,
                     on_error |-> "Stop"]
    /\ fcall.executed = << 1, 2 >>
    /\ fcall.ret = "Err"

\* C18: with on_error = Continue every child runs exactly once, in list
\* order, whatever fails; the composite returns Success, never an error, and
\* its message gives the number of children that returned Ok.
C18_ContinueRunsAll ==
    (fcall.fn = "CompositeAction::execute"
     /\ fcall.self.on_error = "Continue") =>
        /\ fcall.executed = InOrder(Len(fcall.self.actions))
        /\ fcall.ret = "Ok"
        /\ fcall.message =
              Cardinality({i \in 1..Len(fcall.self.actions) :
                              fcall.self.actions[i] \in OkResults})

\* A Continue composite whose first and third children failed: all three
\* ran and one success was reported.
C18_Witness ==
    /\ fcall.fn = "CompositeAction::execute"
    /\ fcall.self = [actions |-> << "Execution", "Success", "Timeout" >>,
                     on_error |-> "Continue"]
    /\ fcall.executed = << 1, 2, 3 >>
    /\ fcall.ret = "Ok"
    /\ fcall.message = 1

\* C19: with on_error = SkipRemaining no child runs after the first one that
\* fails; the composite returns Success, never an error, and its message
\* counts the children that returned Ok before the failure.
C19_SkipRemainingSummary ==
    (fcall.fn = "CompositeAction::execute"
     /\ fcall.self.on_error = "SkipRemaining") =>
        /\ fcall.executed = UpToFirstFailure
        /\ fcall.ret = "Ok"
        /\ fcall.message = IF FirstFailure = 0 THEN Len(fcall.self.actions)
                           ELSE FirstFailure - 1

\* A SkipRemaining composite whose second child of three failed: the third
\* did not run and one completed child was reported.
C19_Witness ==
    /\ fcall.fn = "CompositeAction::execute"
    /\ fcall.self = [actions |-> << "Success", "Timeout", "Success" >>,
                     on_error |-> "SkipRemaining"]
    /\ fcall.executed = << 1, 2 >>
    /\ fcall.ret = "Ok"
    /\ fcall.message = 1

\* The entry function of the current call was called and reported a
\* failure: it raised an error, or returned a table with success = false and
\* a message.
ScriptFailed ==
    /\ fcall.load = "called"
    /\ \/ fcall.result.type = "error"
       \/ /\ fcall.result.type = "table"
          /\ fcall.result.success = Some(FALSE)
          /\ fcall.result.message # Nothing

\* The text of that failure.
ScriptFailureText ==
    IF fcall.result.type = "error" THEN fcall.result.text
    ELSE fcall.result.message[1]

\* The entry function was called and returned success = true, or a value
\* that is not a table.
ScriptSucceeded ==
    /\ fcall.load = "called"
    /\ \/ fcall.result.type = "value"
       \/ fcall.result.type = "table" /\ fcall.result.success = Some(TRUE)

\* C20: when the entry function reports a failure, a script action with
\* on_error = Fail returns ActionError::Execution, and one with Continue or
\* Log returns Success with a message containing the failure text; when the
\* function returns success = true or a non-table value the action returns
\* Success.
C20_ScriptErrorBehavior ==
    fcall.fn = "ScriptAction::execute" =>
        /\ (ScriptFailed /\ fcall.self.on_error = "Fail") =>
              fcall.ret = "Err" /\ fcall.err = "Execution"
        /\ (ScriptFailed /\ fcall.self.on_error \in {"Continue", "Log"}) =>
              /\ fcall.ret = "Ok"
              /\ fcall.message # Nothing
              /\ contains(fcall.message[1], ScriptFailureText)
        /\ ScriptSucceeded => fcall.ret = "Ok"

\* A script action with on_error = Log whose function returned
\* {success = false, message = "x"} returned Success with x in its message.
C20_Witness ==
    /\ fcall.fn = "ScriptAction::execute"
    /\ fcall.self.on_error = "Log"
    /\ fcall.load = "called"
    /\ fcall.result = [type |-> "table", success |-> Some(FALSE),
                       message |-> Some(<< "x" >>)]
    /\ fcall.ret = "Ok"
    /\ fcall.message = Some(<< "Failed", "but", "continuing:", "x" >>)

\* C21: an execute action does not hold the dispatch task longer than its
\* timeout: a task waiting for the child of an execute action leaves the
\* wait (the action returning ActionError::Timeout if the child is still
\* running), whether or not the child ever exits.
C21_ExecuteTimesOut ==
    \A t \in 1..(MaxReloads + 1) :
        (t <= Len(tasks) /\ tasks[t].pc = "wait")
            ~> (t <= Len(tasks) /\ tasks[t].pc # "wait")

\* A dispatch task is waiting for the child of an execute action while an
\* event accepted by the bus sits in its queue.
C21_Witness ==
    \E t \in 1..Len(tasks) :
        /\ tasks[t].pc = "wait"
        /\ Len(buses[tasks[t].bus].queue) > 0

\* The raw_set calls of setup_sandbox that remove a global are the first
\* RemovalWrites ones.
RemovalWrites == Cardinality(RemovedGlobals) + 1

\* C22: when the user script is loaded into a VM, whatever the VM is built
\* for, the globals dofile, loadfile, load, require, io and debug are nil and
\* os is the table with only date and time; once setup has removed them, no
\* later step of it binds them again.
C22_SandboxBeforeLoad ==
    /\ fcall.fn = "lua.load" =>
          /\ \A g \in RemovedGlobals : fcall.globals[g] = "nil"
          /\ fcall.globals["os"] = "date_time"
    /\ (fcall.fn = "Lua::new" /\ fcall.pc >= RemovalWrites) =>
          /\ \A g \in RemovedGlobals : fcall.globals[g] = "nil"
          /\ fcall.globals["os"] # "std"

\* The script was loaded into the VM built for an execution, after setup
\* had removed the debug global and bound the fs API.
C22_Witness ==
    /\ fcall.fn = "lua.load"
    /\ fcall.purpose = "execute"
    /\ fcall.globals["debug"] = "nil"
    /\ fcall.globals["fs"] = "api"

\* The directory a path names once it is resolved: a relative path is taken
\* from the current directory, and each ".." leaves the directory reached so
\* far (the root is its own parent).
RECURSIVE Resolve(_, _)
Resolve(dir, comps) ==
    IF comps = << >> THEN dir
    ELSE IF Head(comps) = ".."
    THEN Resolve(IF dir = << >> THEN dir ELSE SubSeq(dir, 1, Len(dir) - 1),
                 Tail(comps))
    ELSE Resolve(Append(dir, Head(comps)), Tail(comps))

\* The path lies under one of the allow-listed roots.
UnderAllowedRoot(path) ==
    LET at == Resolve(IF path.abs THEN << >> ELSE current_dir, path.comps)
    IN  \E root \in allowed_dirs :
           Len(at) >= Len(root) /\ SubSeq(at, 1, Len(root)) = root

\* C23: fs.move and fs.delete call the file operation only when every path
\* argument lies under an allow-listed root; for any other argument,
\* relative paths and paths with ".." that lead outside the roots included,
\* they return false and make no file operation.
C23_FsOnlyUnderAllowedRoots ==
    fcall.fn \in {"fs.move", "fs.delete"} =>
        LET allowed == \A i \in 1..Len(fcall.paths) :
                          UnderAllowedRoot(fcall.paths[i])
        IN  /\ fcall.performed => allowed
            /\ ~allowed => ~fcall.ret /\ ~fcall.performed

\* fs.delete was refused for the absolute path /etc, and did nothing.
C23_Witness ==
    /\ fcall.fn = "fs.delete"
    /\ fcall.paths = << [abs |-> TRUE, comps |-> << "etc" >>] >>
    /\ ~fcall.ret
    /\ ~fcall.performed

\* C24: for every counter key, get_counter never returns less than it
\* returned before: the value it would return now is at least the value it
\* returned last, whatever increments and cleanup runs came in between.
C24_CounterNeverDecreases ==
    \A key \in CounterKeys :
        counters[key].present => counters[key].v >= seen[key]

\* get_counter returned 2 for events_total after two increments, with the
\* cleanup task running.
C24_Witness ==
    /\ seen["events_total"] = 2
    /\ Len(counter_samples["events_total"]) = 2
    /\ cleanup.started

\* C25: once every increment_counter call begun has returned, the counter of
\* each key is the sum of the values of the increments made to it, also when
\* the first increments of a key ran at the same time.
C25_NoLostIncrement ==
    (\A t \in Threads : m_pc[t].pc = "idle") =>
        \A key \in CounterKeys :
            /\ added[key] > 0 => counters[key].present
            /\ counters[key].present => counters[key].v = added[key]

\* Three increments of one key have returned, made by two threads.
C25_Witness ==
    /\ \A t \in Threads : m_pc[t].pc = "idle"
    /\ Len(counter_samples["events_total"]) = 3
    /\ counters["events_total"].present

\* C26: the cleanup task removes a sample of an error-flagged metric only
\* when it is at least 86400 s old and a sample of any other metric only
\* when it is at least 3600 s old.
C26_RetentionByErrorFlag ==
    \A e \in evicted :
        e.at - e.ts >= (IF is_error_metric(e.key) THEN ERROR_RETENTION_SECONDS
                        ELSE DEFAULT_RETENTION_SECONDS)

\* The cleanup task removed a sample of events_total that was 3600 s old.
C26_Witness ==
    \E e \in evicted :
        /\ e.key = "events_total"
        /\ e.at - e.ts = DEFAULT_RETENTION_SECONDS

\* A validation rule the configuration breaks: an unnamed rule, two sources
\* of one name, a glob or a regex that does not compile, a registry root that
\* is none of HKLM, HKCU, HKU, HKCC.
ViolatesValidationRule(c) ==
    \/ \E i \in 1..Len(c.rules) : c.rules[i].name = ""
    \/ \E i, j \in 1..Len(c.sources) :
          i < j /\ c.sources[i].name = c.sources[j].name
    \/ \E i \in 1..Len(c.rules) : ~GlobValid(c.rules[i].trigger.pattern)
    \/ \E i \in 1..Len(c.sources) :
          LET t == c.sources[i].source_type
          IN  \/ t.type = "file_watcher" /\ ~GlobValid(t.pattern)
              \/ t.type = "window_watcher" /\ ~RegexValid(t.title_pattern)
              \/ t.type = "registry_monitor" /\ t.root \notin RegistryRoots

\* C27: Config::validate returns an error exactly for the configurations
\* that break a validation rule, leaves the configuration as it was, and
\* returns the same answer when it is called again.
C27_ValidateRejectsEveryViolation ==
    fcall.fn = "Config::validate" =>
        /\ (fcall.ret = "Err") <=> ViolatesValidationRule(fcall.config)
        /\ fcall.after = fcall.config
        /\ fcall.again = fcall.ret

\* validate was called on a configuration whose only defect is a glob that
\* does not compile.
C27_Witness ==
    /\ fcall.fn = "Config::validate"
    /\ Len(fcall.config.rules) = 1
    /\ fcall.config.rules[1].name = "r"
    /\ fcall.config.rules[1].trigger.pattern = "["
    /\ fcall.config.sources = << >>

\* C28: when the task has handled a Focused notification for a window other
\* than the one in the previous-window slot, whatever that window is, it has
\* emitted WindowUnfocused for the window of the slot, ahead of any
\* WindowFocused; and it never emits WindowUnfocused for the window that
\* gains focus.
C28_UnfocusBeforeFocus ==
    /\ \A i \in 1..Len(last_focus.out) :
          last_focus.out[i].kind = "WindowUnfocused"
              => last_focus.out[i].hwnd # last_focus.hwnd
    /\ (last_focus.hwnd # 0 /\ last_focus.prev # Nothing
            /\ last_focus.prev[1] # last_focus.hwnd) =>
          \E i \in 1..Len(last_focus.out) :
              /\ last_focus.out[i].kind = "WindowUnfocused"
              /\ last_focus.out[i].hwnd = last_focus.prev[1]
              /\ \A j \in 1..Len(last_focus.out) :
                    last_focus.out[j].kind = "WindowFocused" => i < j

\* Focus went from one window to another and both events were emitted.
C28_Witness ==
    /\ last_focus.prev # Nothing
    /\ last_focus.prev[1] # last_focus.hwnd
    /\ Len(last_focus.out) = 2
    /\ last_focus.out[1].kind = "WindowUnfocused"
    /\ last_focus.out[2].kind = "WindowFocused"

\* C29: every event the window observer emits, of whatever kind, is about a
\* window whose title passes the title filter and whose process name passes
\* the process filter; a filter that is not set passes everything.
C29_NoEventForFilteredWindow ==
    \A i \in 1..Len(emitted) :
        passes_filters(WindowTitle(emitted[i].hwnd),
                       WindowProcess(emitted[i].hwnd))

\* With both filters set, a notification for a window that fails one of them
\* was handled and an event for a window that passes both was emitted.
C29_Witness ==
    /\ title_filter # Nothing
    /\ process_filter # Nothing
    /\ emitted # << >>
    /\ passes_filters(WindowTitle(emitted[1].hwnd),
                      WindowProcess(emitted[1].hwnd))
    /\ last_focus.hwnd = 3
    /\ last_focus.out = << >>

\* C30: the file watcher sends an event for a path exactly when the
\* notification is a create, a modify or a remove and should_emit_event holds
\* for the path, and then it sends the one event of the matching kind, for
\* that path, with the path as watcher_path.
C30_CallbackAgreesWithShouldEmit ==
    fcall.fn = "watcher callback" =>
        LET emit == /\ fcall.kind \in {"Create", "Modify", "Remove"}
                    /\ should_emit_event(fcall.pattern, fcall.path)
        IN  /\ (fcall.sent # << >>) <=> emit
            /\ emit =>
                  /\ Len(fcall.sent) = 1
                  /\ fcall.sent[1].variant =
                         (CASE fcall.kind = "Create" -> "FileCreated"
                            [] fcall.kind = "Modify" -> "FileModified"
                            [] fcall.kind = "Remove" -> "FileDeleted")
                  /\ fcall.sent[1].path = fcall.path
                  /\ fcall.sent[1].watcher_path = to_string_lossy(fcall.path)

\* A create of a file whose name matches the configured glob was sent as
\* FileCreated.
C30_Witness ==
    /\ fcall.fn = "watcher callback"
    /\ fcall.pattern = Some(<< "a", "*" >>)
    /\ fcall.kind = "Create"
    /\ fcall.path = [name |-> Some(<< "a", "b" >>), utf8 |-> TRUE]
    /\ Len(fcall.sent) = 1
    /\ fcall.sent[1].variant = "FileCreated"

\* C31: a process monitor that has a name filter emits an event only when
\* the process name holds the filter text, upper and lower case taken as
\* equal.
C31_OnlyFilteredProcesses ==
    (fcall.fn = "process forward" /\ fcall.filter_name # Nothing) =>
        \A i \in 1..Len(fcall.sent) :
            contains(to_lowercase(fcall.sent[i].process_name),
                     to_lowercase(fcall.filter_name[1]))

\* A record of a process whose name holds the filter text, in another case,
\* was forwarded.
C31_Witness ==
    /\ fcall.fn = "process forward"
    /\ fcall.filter_name = Some(<< "a" >>)
    /\ fcall.etw_event.image_name = << "b", "A" >>
    /\ Len(fcall.sent) = 1

\* The components of one key path are the leading components of another,
\* case aside.
KeyPrefix(k, p) ==
    /\ Len(k) <= Len(p)
    /\ \A i \in 1..Len(k) : to_lowercase(k[i]) = to_lowercase(p[i])

\* The change at key path p is one the watch c covers: the watched key or a
\* direct child of it, or with watch_tree the key or any descendant.
Watched(c, p) ==
    /\ KeyPrefix(c.key, p)
    /\ (~c.watch_tree => Len(p) <= Len(c.key) + 1)

\* C32: a registry monitor with a watched key emits RegistryChanged for a
\* trace record exactly when the record is a change, not a key open, at a
\* key the watch covers.
C32_EmitsIffWatched ==
    (fcall.fn = "registry forward" /\ fcall.keys # << >>) =>
        ((fcall.sent # << >>) <=>
            /\ fcall.type # "RegistryKeyOpened"
            /\ \E i \in 1..Len(fcall.keys) : Watched(fcall.keys[i], fcall.at))

\* A value set at a direct child of a key watched without its tree, the
\* names differing in case, was emitted.
C32_Witness ==
    /\ fcall.fn = "registry forward"
    /\ fcall.keys = << [key |-> << << "a" >> >>, watch_tree |-> FALSE] >>
    /\ fcall.type = "RegistryValueSet"
    /\ fcall.at = << << "A" >>, << "a", "b" >> >>
    /\ Len(fcall.sent) = 1

\* The updates among the frames sent to the client, in order.
UpdateFrames == SelectSeq(frames, LAMBDA f : f # Snapshot)

\* C33: the first frame a client gets is a snapshot; the updates it gets are
\* updates broadcast after it subscribed, each once and in broadcast order;
\* an update the client has passed without getting it was skipped when the
\* channel had already sent Capacity newer updates, so the updates lost are
\* the oldest ones.
C33_SnapshotThenUpdatesInOrder ==
    /\ frames # << >> => frames[1] = Snapshot
    /\ \A i \in 1..Len(UpdateFrames) :
          /\ UpdateFrames[i] > subscribed_at
          /\ UpdateFrames[i] <= tx_tail
          /\ \A j \in 1..Len(UpdateFrames) :
                i < j => UpdateFrames[i] < UpdateFrames[j]
    /\ ws_pc \in {"select", "select_rest"} =>
          \A id \in (subscribed_at + 1)..(rx_next - 1) :
              \/ \E i \in 1..Len(UpdateFrames) : UpdateFrames[i] = id
              \/ \E l \in lost : l.id = id /\ l.tail - l.id >= Capacity

\* The client fell behind, lost the oldest update and then got a later one.
C33_Witness ==
    /\ lost # {}
    /\ Len(UpdateFrames) >= 1
    /\ \E l \in lost : l.id < UpdateFrames[Len(UpdateFrames)]
    /\ frames[1] = Snapshot

\* C34: after a reload that succeeded, the action registry holds one entry
\* for each rule of the new configuration, registered by that reload, and
\* nothing else.
C34_RegistryMatchesNewConfig ==
    last_reload.ok =>
        /\ DOMAIN action_executor = 0..(Len(config.rules) - 1)
        /\ \A i \in DOMAIN action_executor : action_executor[i].epoch = epoch

\* A reload succeeded with a configuration that has as many rules as the
\* registry has entries, all of them registered by the reload.
C34_Witness ==
    /\ last_reload.ok
    /\ Len(config.rules) = 2
    /\ DOMAIN action_executor = {0, 1}
    /\ \A i \in DOMAIN action_executor : action_executor[i].epoch = epoch

\* C35: a stop() of a window observer or a kernel-trace monitor that waits
\* for the dedicated thread to finish eventually returns, with the thread
\* finished and the forwarding task of that start terminated, whether or not
\* the OS delivers anything more.
C35_StopReturns ==
    \A g \in Gens :
        (main_pc = "stop_join" /\ p_handle = g)
            ~> (main_pc = "idle" /\ ThreadDone(g) /\ fw[g] = "done")

\* stop() of a started window observer is waiting in join while the hook
\* thread is inside GetMessageW.
C35_Witness ==
    /\ ptype = "window"
    /\ main_pc = "stop_join"
    /\ p_handle # 0
    /\ th[p_handle] = "getmsg"

\* C36: once Engine::shutdown has returned, no further event is taken from
\* the bus and no further action is executed, and the dispatch task
\* eventually stops.
C36_NothingAfterShutdown ==
    /\ [](shutdown.done => /\ Len(deqLog) = shutdown.dispatched
                           /\ Len(execLog) = shutdown.executed)
    /\ (shutdown.done ~> \A t \in 1..Len(tasks) : tasks[t].pc = "stopped")

\* shutdown returned while an event was waiting in the bus.
C36_Witness ==
    /\ shutdown.done
    /\ event_sender # NoBus
    /\ Len(buses[event_sender].queue) > 0

\* C37: every reload signal is caused by a Modify or Create notification
\* that names a .toml path, and comes at least 500 ms after the signal
\* before it.
C37_SignalsFilteredAndDebounced ==
    \A s \in { last_signal[n] : n \in 1..Len(last_signal) } :
        /\ s.event.kind \in {"Modify", "Create"}
        /\ "toml" \in s.event.paths
        /\ s.gap >= DebounceTicks

\* The watcher of the second epoch has signalled a reload.
C37_Witness ==
    /\ last_signal # << >>
    /\ last_signal[1].watcher = 2

\* C38: the engine eventually runs on the latest configuration on disk: a
\* modification inside the debounce window is deferred, not discarded.
C38_LatestConfigEventuallyLoaded == <>[](cfg_loaded = cfg_file)

\* A modification has been consumed by every watcher, no signal is under
\* way and the engine still runs on the older configuration.
C38_Witness ==
    /\ cfg_loaded < cfg_file
    /\ main_loop = "select"
    /\ reload_signals = 0
    /\ \A i \in 1..Len(watchers) : watchers[i].notify_rx = << >>

\* C39: whenever a hot reload has completed, exactly one watcher task is
\* running.
C39_OneWatcherAfterReload ==
    main_loop = "select" =>
        Cardinality({ i \in 1..Len(watchers) : watchers[i].pc # "stopped" }) = 1

\* A hot reload has completed.
C39_Witness ==
    /\ main_loop = "select"
    /\ Len(watchers) >= 2
    /\ watchers[1].pc = "stopped"

\* C40: the key of a recorded series parses back to the name and labels it
\* was built from, without a panic, and does not depend on the order in
\* which the label map is iterated.
C40_KeyRoundTrip ==
    fcall.fn = "metric key" =>
        /\ fcall.parsed = << [name |-> fcall.name, labels |-> fcall.labels] >>
        /\ \A it \in IterOrders(fcall.labels) :
              build_key(fcall.name, it) = fcall.key

\* A series with two labels was read back as recorded.
C40_Witness ==
    /\ fcall.fn = "metric key"
    /\ Cardinality(fcall.labels) = 2
    /\ fcall.parsed = << [name |-> fcall.name, labels |-> fcall.labels] >>

====
